---- MODULE Spec2Model ----
(***************************************************************************)
(* State-machine model of the evercore coordination engine: the ticket     *)
(* service, the worker's process_once (reap, cancel-finalization, claim,   *)
(* pre-execution gate, execution with its lease renewer, finalize) and the *)
(* event inbox.                                                            *)
(*                                                                         *)
(* Granularity.  Every database transaction of the code is one atomic      *)
(* action, with two exceptions where the code reads a row without a lock   *)
(* on a thread or connection of its own and writes it back later: the      *)
(* lease renewer (read, then UPDATE of the changed columns) and the        *)
(* wait_for_event executor (SELECT of the oldest unconsumed event, then    *)
(* UPDATE + commit).  The claim transaction is two actions, because it     *)
(* reads rows it has not locked: its SELECT ... FOR UPDATE SKIP LOCKED     *)
(* statements, which lock the rows they return, and the walk with the      *)
(* commit, which releases them.  A writer of a locked row waits for the    *)
(* commit; a SKIP LOCKED reader passes over the row.                       *)
(*                                                                         *)
(* Time.  The code reads a timestamp only to compare it with now_utc(), so *)
(* every timestamp is kept relative to the current instant: `now` is the   *)
(* origin 0, a deadline d is stored as d - now and stays at 0 once it has  *)
(* passed, started_at is stored as started_at - now down to -PastHorizon,  *)
(* and Tick moves the clock by TickSeconds.  claimed_at and completed_at   *)
(* are never compared by the code; once set they read 0.                   *)
(***************************************************************************)
EXTENDS Integers, Sequences, FiniteSets, TLC

(* ------------------------------ bounds -------------------------------- *)
MaxTickets == 1
MaxTasks == 1
MaxEvents == 1
MaxAttemptCount == 3
MaxLingering == 1
MaxOps == 1
DepTasks == 2
EventTasks == 2
CancelTasks == 2
FifoTickets == 2
HappyTasks == 2
PolicyTasks == 2
PauseOps == 4
MaxSchedules == 2
MaxDelayAttempts == 6
MaxDelayBase == 4
MaxDelayMax == 9
SchedTickets == 3
SchedOps == 1
OrderTasks == 2
OrderOps == 2
TransitionOps == 2
ResumeOps == 6
FifoTasks == 2
FifoEvents == 2
CancelOps == 2
BackoffOps == 2
TickSeconds == 300
PastHorizon == 300

(* --------------------------- configuration ---------------------------- *)
default_max_attempts == 3
task_lease_seconds == 300
stale_task_timeout_seconds == 900
retry_base_seconds == 10
retry_max_seconds == 600
event_wait_poll_interval_seconds == 15
MinLeaseSeconds == 10
MinStaleSeconds == 30

None == -999999
now == 0
NoWorker == "none"
Workers == {"w1", "w2"}

(* The executors registered with the ExecutorRegistry: the built-in noop   *)
(* and wait_for_event; "always_fail" and "defer", executors as the worker  *)
(* tests register them; and "custom", a registered executor whose result   *)
(* the engine does not determine.  "defer_any" is a registered executor    *)
(* that defers every execution, for a delay of its choice.  "unknown" is a *)
(* task_key with no executor.                                              *)
RegisteredKeys ==
    {"noop", "wait_for_event", "always_fail", "defer", "defer_any", "custom"}
EventTypes == {"go"}
OutputIds == {1, 2}
DeferSeconds == {None, 0, 1, 20}

VARIABLES tickets, tasks, events, pc, wtask, wresult, wevent, wcancel, wcand,
          wresp, renewer, rsnap, lingering, ops, schedules, wsched, delay

vars == <<tickets, tasks, events, pc, wtask, wresult, wevent, wcancel, wcand,
          wresp, renewer, rsnap, lingering, ops, schedules, wsched, delay>>
dbvars == <<tickets, tasks, events>>
workervars == <<pc, wtask, wresult, wevent, wcancel, wcand, wresp>>
leasevars == <<renewer, rsnap, lingering>>

(* A call of task_runtime.compute_retry_delay_seconds: its arguments and   *)
(* the value it returned, None before it has.                              *)
NoDelay == [attempt_count |-> 0, retry_base_seconds |-> 1, retry_max_seconds |-> 1,
            seconds |-> None]
schedvars == <<schedules, wsched>>

(* Rows of `tasks` locked by a claim transaction in progress. *)
Locked == UNION {wcancel[w] \cup wcand[w] : w \in Workers}
RowFree(i) == i \notin Locked
SkipLockedNot(rows) == rows
SkipLocked(rows) == rows \ Locked

Max(a, b) == IF a >= b THEN a ELSE b
Min(a, b) == IF a <= b THEN a ELSE b

(* Python's `x or y` on Optional[int]: None and 0 are falsy. *)
OrElse(x, y) == IF x = None \/ x = 0 THEN y ELSE x

RECURSIVE Pow2(_)
Pow2(n) == IF n <= 0 THEN 1 ELSE 2 * Pow2(n - 1)

(* ------------------------- task_runtime.py ---------------------------- *)
normalize_max_attempts(value, default) ==
    IF value = None THEN Max(OrElse(default, 1), 1) ELSE Max(value, 1)

lease_expires_at(t, lease_seconds) == t + Max(OrElse(lease_seconds, 1), 1)

(* The delay with the exponent attempt_count instead of attempt_count - 1 *)
compute_retry_delay_seconds_doubling_first(attempt_count, base_in, max_in) ==
    LET base == Max(OrElse(base_in, 1), 1)
        maximum == Max(OrElse(max_in, base), base)
    IN Min(maximum, base * Pow2(Max(0, attempt_count)))

compute_retry_delay_seconds(attempt_count, base_in, max_in) ==
    LET base == Max(OrElse(base_in, 1), 1)
        maximum == Max(OrElse(max_in, base), base)
    IN Min(maximum, base * Pow2(Max(0, attempt_count - 1)))

compute_next_retry_at_no_delay(t, attempt_count, base_in, max_in) == t

compute_next_retry_at(t, attempt_count, base_in, max_in) ==
    t + compute_retry_delay_seconds(attempt_count, base_in, max_in)

should_dead_letter_off_by_one(attempt_count, max_attempts) ==
    attempt_count + 1 >= Max(max_attempts, 1)

should_dead_letter(attempt_count, max_attempts) ==
    attempt_count >= Max(max_attempts, 1)

is_stale_running_task_strict(t, lease_expires_at_value, started_at, stale_timeout) ==
    IF lease_expires_at_value # None THEN lease_expires_at_value < t
    ELSE IF started_at = None THEN FALSE
    ELSE started_at <= t - Max(OrElse(stale_timeout, 1), 1)

is_stale_running_task(t, lease_expires_at_value, started_at, stale_timeout) ==
    IF lease_expires_at_value # None THEN lease_expires_at_value <= t
    ELSE IF started_at = None THEN FALSE
    ELSE started_at <= t - Max(OrElse(stale_timeout, 1), 1)

(* --------------------------- state_policy.py --------------------------- *)
ApprovalPending(tk) == tk.approval_required /\ tk.approval_status = "pending"

TasksOf(ts, tid) == {i \in 1..Len(ts) : ts[i].ticket_id = tid}

resolve_approval_first(tk, states, t) ==
    IF ApprovalPending(tk)
      THEN [stage |-> "pending_approval", status |-> "waiting_approval", completed_at |-> None]
    ELSE IF tk.paused
      THEN [stage |-> tk.stage, status |-> "paused", completed_at |-> tk.completed_at]
    ELSE IF tk.approval_required /\ tk.approval_status = "rejected"
      THEN [stage |-> "review", status |-> "attention", completed_at |-> None]
    ELSE IF states = << >>
      THEN [stage |-> "queued", status |-> "active", completed_at |-> None]
    ELSE IF \E i \in 1..Len(states) : states[i] \in {"failed", "dead_letter"}
      THEN [stage |-> "review", status |-> "attention", completed_at |-> None]
    ELSE IF \A i \in 1..Len(states) : states[i] = "completed"
      THEN [stage |-> "finished", status |-> "completed", completed_at |-> t]
    ELSE [stage |-> "running", status |-> "active", completed_at |-> None]

resolve(tk, states, t) ==
    IF tk.paused
      THEN [stage |-> tk.stage, status |-> "paused", completed_at |-> tk.completed_at]
    ELSE IF ApprovalPending(tk)
      THEN [stage |-> "pending_approval", status |-> "waiting_approval", completed_at |-> None]
    ELSE IF tk.approval_required /\ tk.approval_status = "rejected"
      THEN [stage |-> "review", status |-> "attention", completed_at |-> None]
    ELSE IF states = << >>
      THEN [stage |-> "queued", status |-> "active", completed_at |-> None]
    ELSE IF \E i \in 1..Len(states) : states[i] \in {"failed", "dead_letter"}
      THEN [stage |-> "review", status |-> "attention", completed_at |-> None]
    ELSE IF \A i \in 1..Len(states) : states[i] = "completed"
      THEN [stage |-> "finished", status |-> "completed", completed_at |-> t]
    ELSE [stage |-> "running", status |-> "active", completed_at |-> None]

RECURSIVE StatesOf(_, _, _)
StatesOf(ts, tid, i) ==
    IF i > Len(ts) THEN << >>
    ELSE IF ts[i].ticket_id = tid THEN <<ts[i].state>> \o StatesOf(ts, tid, i + 1)
    ELSE StatesOf(ts, tid, i + 1)

(* The sync writing the pause flag along with the policy's result. *)
SyncTicket_clearing_pause(tk, ts, tid) ==
    LET r == resolve(tk, StatesOf(ts, tid, 1), now)
    IN [tk EXCEPT !.stage = r.stage, !.status = r.status,
                  !.completed_at = r.completed_at, !.paused = FALSE]

(* WorkerService._sync_ticket_state: the ticket row after the policy ran   *)
(* over the ticket's current tasks.                                        *)
SyncTicket(tk, ts, tid) ==
    LET r == resolve(tk, StatesOf(ts, tid, 1), now)
    IN [tk EXCEPT !.stage = r.stage, !.status = r.status,
                  !.completed_at = r.completed_at]

SyncTickets(tks, ts, tids) ==
    [i \in 1..Len(tks) |-> IF i \in tids THEN SyncTicket(tks[i], ts, i) ELSE tks[i]]

(* ------------------ worker_service.py: task writers -------------------- *)
ClearClaim(t) ==
    [t EXCEPT !.claimed_by = NoWorker, !.claimed_at = None,
              !.lease_expires_at = None, !.next_run_at = None]

(* repositories.add_task_log: `logs` holds the log_type of the TaskLog     *)
(* rows of the task, of those rows whose log_type is in KeptLogTypes.      *)
KeptLogTypes == {"error"}
add_task_log(t, log_type) ==
    IF log_type \in KeptLogTypes THEN [t EXCEPT !.logs = @ \cup {log_type}] ELSE t

MarkTaskTerminalFailure_unlogged(t, message) ==
    [ClearClaim(t) EXCEPT !.state = "failed", !.error_message = message,
                          !.completed_at = now]

MarkTaskTerminalFailure(t, message) ==
    add_task_log([ClearClaim(t) EXCEPT !.state = "failed", !.error_message = message,
                                       !.completed_at = now],
                 "error")

MarkTaskCancelled(t) ==
    add_task_log([ClearClaim(t) EXCEPT !.state = "cancelled",
                                       !.error_message = "cancel requested",
                                       !.completed_at = now],
                 "warning")

ParkTaskForPause(t) == [ClearClaim(t) EXCEPT !.state = "paused"]

ParkTaskForApproval(t) == [ClearClaim(t) EXCEPT !.state = "blocked"]

RetryBase(t) == Max(OrElse(t.retry_base_seconds, retry_base_seconds), 1)
RetryMax(t) == Max(OrElse(t.retry_max_seconds, retry_max_seconds), RetryBase(t))

FinalizeRetryOrDeadLetter(t, message) ==
    LET attempt_count == t.attempt_count
        max_attempts == normalize_max_attempts(t.max_attempts, default_max_attempts)
        t1 == [t EXCEPT !.max_attempts = max_attempts]
    IN IF should_dead_letter(attempt_count, max_attempts)
         THEN add_task_log([ClearClaim(t1) EXCEPT !.state = "dead_letter",
                                                  !.error_message = message,
                                                  !.completed_at = now],
                           "error")
         ELSE add_task_log(
                [ClearClaim(t1) EXCEPT
                   !.state = "retrying",
                   !.error_message = message,
                   !.completed_at = None,
                   !.next_run_at = compute_next_retry_at(now, attempt_count,
                                                         RetryBase(t1), RetryMax(t1))],
                "warning")

FinalizeDeferredTask_consuming_attempt(t, message, defer_seconds) ==
    LET retry_delay == Max(OrElse(defer_seconds, event_wait_poll_interval_seconds), 1)
    IN [ClearClaim(t) EXCEPT
          !.state = "retrying",
          !.error_message = message,
          !.completed_at = None,
          !.next_run_at = compute_next_retry_at(now, 1, retry_delay, retry_delay)]

FinalizeDeferredTask(t, message, defer_seconds) ==
    LET retry_delay == Max(OrElse(defer_seconds, event_wait_poll_interval_seconds), 1)
    IN add_task_log(
         [ClearClaim(t) EXCEPT
            !.state = "retrying",
            !.error_message = message,
            !.completed_at = None,
            !.attempt_count = Max(OrElse(t.attempt_count, 1) - 1, 0),
            !.next_run_at = compute_next_retry_at(now, 1, retry_delay, retry_delay)],
         "info")

FinalizeSuccess(t, output) ==
    add_task_log([ClearClaim(t) EXCEPT !.state = "completed", !.result_data = output,
                                       !.error_message = "none", !.completed_at = now],
                 "info")

task_timeout_exceeded(t) ==
    IF t.timeout_seconds = None \/ t.started_at = None THEN FALSE
    ELSE now - t.started_at >= Max(t.timeout_seconds, 1)


(* ------------------------------ workflow ------------------------------- *)
(* The parsed WorkflowDefinition the tickets are bound to: stage id ->     *)
(* transitions in declaration order.  A guard is "always", "never" or      *)
(* "context.ok" (truthiness of transition_context["ok"]).                  *)
WorkflowInitialStage == "queued"
WorkflowStages ==
    [queued |-> << [target |-> "running", when |-> "context.ok"],
                   [target |-> "pending_approval", when |-> "always"] >>,
     running |-> << [target |-> "review", when |-> "never"],
                    [target |-> "pending_approval", when |-> "context.ok"],
                    [target |-> "finished", when |-> "always"] >>,
     pending_approval |-> << [target |-> "running", when |-> "always"] >>,
     review |-> << [target |-> "running", when |-> "always"] >>]
StageIds == DOMAIN WorkflowStages
NoTarget == ""

evaluate_when(when, ctx_ok) ==
    IF when \in {"", "true", "always"} THEN TRUE
    ELSE IF when \in {"false", "never"} THEN FALSE
    ELSE ctx_ok

RECURSIVE ChooseTransition_last_match(_, _, _, _)
ChooseTransition_last_match(trs, i, target_stage, ctx_ok) ==
    LET later == IF i >= Len(trs) THEN 0
                 ELSE ChooseTransition_last_match(trs, i + 1, target_stage, ctx_ok)
    IN IF i > Len(trs) THEN 0
       ELSE IF later # 0 THEN later
       ELSE IF target_stage # NoTarget /\ trs[i].target # target_stage THEN 0
       ELSE IF evaluate_when(trs[i].when, ctx_ok) THEN i
       ELSE 0

(* Index of the transition transition_ticket chooses, 0 when none does. *)
RECURSIVE ChooseTransition(_, _, _, _)
ChooseTransition(trs, i, target_stage, ctx_ok) ==
    IF i > Len(trs) THEN 0
    ELSE IF target_stage # NoTarget /\ trs[i].target # target_stage
      THEN ChooseTransition(trs, i + 1, target_stage, ctx_ok)
    ELSE IF evaluate_when(trs[i].when, ctx_ok) THEN i
    ELSE ChooseTransition(trs, i + 1, target_stage, ctx_ok)

(* --------------------------- ticket_service.py ------------------------- *)
(* `ops` counts the calls of the ticket service and of the cancel-request  *)
(* endpoint on existing tickets and tasks.                                 *)
OperatorCallWithin(cap) == ops < cap /\ ops' = ops + 1
OperatorCall == OperatorCallWithin(MaxOps)

TimeoutInputs == {None, 1}
RetryInputs == {<<None, None>>}
PayloadInputs == {[event_type |-> "go", consume |-> TRUE, poll_interval_seconds |-> 1]}

EmptyOutput == [kind |-> "empty", id |-> 0]

NewTicket ==
    [title |-> "none", paused |-> FALSE, approval_required |-> FALSE, approval_status |-> "none",
     stage |-> WorkflowInitialStage, status |-> "active", completed_at |-> None]

CreateTicketFrom(cap) ==
    /\ Len(tickets) < cap
    /\ tickets' = Append(tickets, NewTicket)
    /\ UNCHANGED <<tasks, events, workervars, leasevars, ops, schedvars, delay>>

create_ticket == CreateTicketFrom(MaxTickets)

NewTask(tid, key, state, payload, max_attempts, retry, timeout, depends_on) ==
    [ticket_id |-> tid, task_key |-> key, state |-> state, payload |-> payload,
     result_data |-> EmptyOutput, error_message |-> "none",
     cancel_requested |-> FALSE, attempt_count |-> 0,
     max_attempts |-> OrElse(max_attempts, default_max_attempts),
     retry_base_seconds |-> retry[1], retry_max_seconds |-> retry[2],
     timeout_seconds |-> timeout, next_run_at |-> None,
     claimed_by |-> NoWorker, claimed_at |-> None, lease_expires_at |-> None,
     started_at |-> None, completed_at |-> None,
     depends_on |-> {d \in depends_on : d > 0}, logs |-> {}]

create_task(tid, key, payload, max_attempts, retry, timeout, depends_on) ==
    /\ tid \in 1..Len(tickets)
    /\ LET tk == tickets[tid]
           initial_state == IF tk.paused THEN "paused"
                            ELSE IF ApprovalPending(tk) THEN "blocked"
                            ELSE "queued"
       IN /\ tasks' = Append(tasks, NewTask(tid, key, initial_state, payload,
                                            max_attempts, retry, timeout, depends_on))
          /\ tickets' = [tickets EXCEPT ![tid] =
                IF initial_state = "blocked"
                  THEN [tk EXCEPT !.stage = "pending_approval",
                                  !.status = "waiting_approval"]
                ELSE IF initial_state = "paused"
                  THEN [tk EXCEPT !.status = "paused"]
                ELSE [tk EXCEPT !.stage = "running", !.status = "active"]]
    /\ UNCHANGED <<events, workervars, leasevars, ops, schedvars, delay>>

MapTasks(tid, F(_)) ==
    [i \in 1..Len(tasks) |-> IF tasks[i].ticket_id = tid THEN F(tasks[i]) ELSE tasks[i]]

(* The UPDATEs of a ticket-service call wait for the rows they change. *)
RowsFree(tid, F(_)) ==
    \A i \in TasksOf(tasks, tid) : F(tasks[i]) # tasks[i] => RowFree(i)

transition_ticket(tid, target_stage, ctx_ok) ==
    /\ tid \in 1..Len(tickets)
    /\ tickets[tid].stage \in StageIds
    /\ LET tk == tickets[tid]
           trs == WorkflowStages[tk.stage]
           k == ChooseTransition(trs, 1, target_stage, ctx_ok)
           target == trs[k].target
       IN /\ k # 0
          /\ tickets' = [tickets EXCEPT ![tid] =
                IF target = "finished"
                  THEN [tk EXCEPT !.stage = target, !.status = "completed",
                          !.completed_at = IF tk.completed_at # None
                                             THEN tk.completed_at ELSE now]
                ELSE IF target = "pending_approval"
                  THEN [tk EXCEPT !.stage = target,
                          !.approval_required = TRUE,
                          !.approval_status = IF tk.approval_status = "none"
                                                THEN "pending" ELSE tk.approval_status,
                          !.status = "waiting_approval"]
                ELSE IF tk.paused
                  THEN [tk EXCEPT !.stage = target, !.status = "paused"]
                ELSE [tk EXCEPT !.stage = target, !.status = "active"]]
    /\ UNCHANGED <<tasks, events, workervars, leasevars, schedvars, delay>>

(* transition_ticket when it raises ValueError: the current stage is not  *)
(* defined in the workflow, or no transition qualifies.  Nothing has been  *)
(* assigned when it raises.                                                *)
transition_ticket_raises(tid, target_stage, ctx_ok) ==
    /\ tid \in 1..Len(tickets)
    /\ IF tickets[tid].stage \notin StageIds THEN TRUE
       ELSE ChooseTransition(WorkflowStages[tickets[tid].stage], 1,
                             target_stage, ctx_ok) = 0
    /\ UNCHANGED <<tickets, tasks, events, workervars, leasevars, schedvars, delay>>

request_approval(tid) ==
    /\ tid \in 1..Len(tickets)
    /\ tickets' = [tickets EXCEPT ![tid] =
          [@ EXCEPT !.approval_required = TRUE, !.approval_status = "pending",
                    !.stage = "pending_approval", !.status = "waiting_approval"]]
    /\ LET Block(t) == IF t.state \in {"queued", "retrying"}
                         THEN [t EXCEPT !.state = "blocked", !.next_run_at = None]
                         ELSE t
       IN RowsFree(tid, Block) /\ tasks' = MapTasks(tid, Block)
    /\ UNCHANGED <<events, workervars, leasevars, schedvars, delay>>

approve_ticket_always_active(tid) ==
    /\ tid \in 1..Len(tickets)
    /\ LET tk == tickets[tid]
           Unblock(t) == IF t.state = "blocked"
                           THEN [t EXCEPT !.state = "queued", !.next_run_at = now]
                           ELSE t
       IN /\ tickets' = [tickets EXCEPT ![tid] =
                [tk EXCEPT !.approval_required = TRUE,
                           !.approval_status = "approved",
                           !.stage = IF tk.stage = "pending_approval"
                                       THEN "running" ELSE tk.stage,
                           !.status = "active"]]
          /\ tk.paused \/ RowsFree(tid, Unblock)
          /\ tasks' = IF tk.paused THEN tasks ELSE MapTasks(tid, Unblock)
    /\ UNCHANGED <<events, workervars, leasevars, schedvars, delay>>

approve_ticket(tid) ==
    /\ tid \in 1..Len(tickets)
    /\ LET tk == tickets[tid]
           Unblock(t) == IF t.state = "blocked"
                           THEN [t EXCEPT !.state = "queued", !.next_run_at = now]
                           ELSE t
       IN /\ tickets' = [tickets EXCEPT ![tid] =
                [tk EXCEPT !.approval_required = TRUE,
                           !.approval_status = "approved",
                           !.stage = IF tk.stage = "pending_approval"
                                       THEN "running" ELSE tk.stage,
                           !.status = IF tk.paused THEN "paused" ELSE "active"]]
          /\ tk.paused \/ RowsFree(tid, Unblock)
          /\ tasks' = IF tk.paused THEN tasks ELSE MapTasks(tid, Unblock)
    /\ UNCHANGED <<events, workervars, leasevars, schedvars, delay>>

reject_ticket(tid) ==
    /\ tid \in 1..Len(tickets)
    /\ tickets' = [tickets EXCEPT ![tid] =
          [@ EXCEPT !.approval_required = TRUE, !.approval_status = "rejected",
                    !.stage = "review", !.status = "attention"]]
    /\ UNCHANGED <<tasks, events, workervars, leasevars, schedvars, delay>>

pause_ticket(tid) ==
    /\ tid \in 1..Len(tickets)
    /\ tickets' = [tickets EXCEPT ![tid] =
          [@ EXCEPT !.paused = TRUE, !.status = "paused"]]
    /\ LET Pause(t) ==
             IF t.state \in {"queued", "retrying", "blocked"}
               THEN [t EXCEPT !.state = "paused", !.next_run_at = None]
             ELSE IF t.state = "running"
               THEN [t EXCEPT !.cancel_requested = TRUE]
             ELSE t
       IN RowsFree(tid, Pause) /\ tasks' = MapTasks(tid, Pause)
    /\ UNCHANGED <<events, workervars, leasevars, schedvars, delay>>

resume_ticket_requeueing(tid) ==
    /\ tid \in 1..Len(tickets)
    /\ LET tk == tickets[tid]
           pending == ApprovalPending(tk)
           Resume(t) ==
             IF t.state # "paused" THEN t
             ELSE [t EXCEPT !.state = "queued", !.next_run_at = now]
       IN /\ tickets' = [tickets EXCEPT ![tid] =
                IF pending
                  THEN [tk EXCEPT !.paused = FALSE, !.stage = "pending_approval",
                                  !.status = "waiting_approval"]
                ELSE IF tk.stage # "finished"
                  THEN [tk EXCEPT !.paused = FALSE, !.status = "active"]
                ELSE [tk EXCEPT !.paused = FALSE]]
          /\ RowsFree(tid, Resume)
          /\ tasks' = MapTasks(tid, Resume)
    /\ UNCHANGED <<events, workervars, leasevars, schedvars, delay>>

resume_ticket(tid) ==
    /\ tid \in 1..Len(tickets)
    /\ LET tk == tickets[tid]
           pending == ApprovalPending(tk)
           Resume(t) ==
             IF t.state # "paused" THEN t
             ELSE IF pending
               THEN [t EXCEPT !.state = "blocked", !.next_run_at = None]
             ELSE [t EXCEPT !.state = "queued", !.next_run_at = now]
       IN /\ tickets' = [tickets EXCEPT ![tid] =
                IF pending
                  THEN [tk EXCEPT !.paused = FALSE, !.stage = "pending_approval",
                                  !.status = "waiting_approval"]
                ELSE IF tk.stage # "finished"
                  THEN [tk EXCEPT !.paused = FALSE, !.status = "active"]
                ELSE [tk EXCEPT !.paused = FALSE]]
          /\ RowsFree(tid, Resume)
          /\ tasks' = MapTasks(tid, Resume)
    /\ UNCHANGED <<events, workervars, leasevars, schedvars, delay>>

publish_event(tid, event_type) ==
    /\ tid \in 1..Len(tickets)
    /\ events' = Append(events, [ticket_id |-> tid, event_type |-> event_type,
                                 consumed_at |-> None, consumed_by_task_id |-> None])
    /\ UNCHANGED <<tickets, tasks, workervars, leasevars, ops, schedvars, delay>>

(* api.py: POST /tasks/{task_id}/cancel-request *)
request_task_cancel(i) ==
    /\ i \in 1..Len(tasks)
    /\ tasks[i].state \notin {"completed", "failed", "dead_letter", "cancelled"}
    /\ ~tasks[i].cancel_requested
    /\ RowFree(i)
    /\ tasks' = [tasks EXCEPT ![i].cancel_requested = TRUE]
    /\ UNCHANGED <<tickets, events, workervars, leasevars, schedvars, delay>>

(* -------------------------- scheduler_service.py ----------------------- *)
(* The rows a process_due_schedules call holds locked until the session    *)
(* of the worker's loop iteration commits, in the order of its SELECT, and *)
(* the limit it was called with.                                           *)
NoBatch == [limit |-> 0, rows |-> << >>]

(* dict(schedule.task_payload or {}) of a schedule without task_payload *)
EmptyPayload == [event_type |-> "", consume |-> FALSE, poll_interval_seconds |-> None]

(* A schedule without a task template: task_key None. *)
NoTaskKey == ""

Range(f) == {f[i] : i \in DOMAIN f}

LockedSchedules == UNION {Range(wsched[w].rows) : w \in Workers}
SkipLockedSchedulesNot(rows) == rows
SkipLockedSchedules(rows) == rows \ LockedSchedules

(* The ticket title of the template is the schedule's key. *)
create_schedule(key, first_run_at, interval_seconds, task_key) ==
    /\ \A i \in 1..Len(schedules) : schedules[i].schedule_key # key
    /\ ~(interval_seconds = None /\ first_run_at = None)
    /\ schedules' = Append(schedules,
          [schedule_key |-> key, active |-> TRUE,
           next_run_at |-> IF first_run_at = None THEN now ELSE first_run_at,
           interval_seconds |-> interval_seconds, ticket_title |-> key,
           task_key |-> task_key, task_payload |-> EmptyPayload,
           task_max_attempts |-> None, last_run_at |-> None])
    /\ UNCHANGED <<dbvars, workervars, leasevars, ops, wsched, delay>>

pause_schedule(id) ==
    /\ id \in 1..Len(schedules)
    /\ id \notin LockedSchedules
    /\ schedules' = [schedules EXCEPT ![id].active = FALSE]
    /\ UNCHANGED <<dbvars, workervars, leasevars, ops, wsched, delay>>

resume_schedule(id) ==
    /\ id \in 1..Len(schedules)
    /\ id \notin LockedSchedules
    /\ schedules' = [schedules EXCEPT ![id] =
          [@ EXCEPT !.active = TRUE,
                    !.next_run_at = IF @ = None THEN now ELSE @]]
    /\ UNCHANGED <<dbvars, workervars, leasevars, wsched, delay>>

Recurring(sc) == sc.interval_seconds # None /\ sc.interval_seconds > 0

(* _run_schedule on the tickets, tasks and schedules st, with a one-shot   *)
(* schedule left as it was found.                                          *)
RunSchedule_leaving_one_shot(st, id) ==
    LET sc == st.schedules[id]
        tid == Len(st.tickets) + 1
        with_task == sc.task_key # NoTaskKey
    IN [tickets |-> Append(st.tickets,
            IF with_task
              THEN [NewTicket EXCEPT !.title = sc.ticket_title,
                                     !.stage = "running", !.status = "active"]
              ELSE [NewTicket EXCEPT !.title = sc.ticket_title]),
        tasks |-> IF with_task
                    THEN Append(st.tasks,
                           NewTask(tid, sc.task_key, "queued", sc.task_payload,
                                   sc.task_max_attempts, <<None, None>>, None, {}))
                    ELSE st.tasks,
        schedules |-> [st.schedules EXCEPT ![id] =
            IF Recurring(sc)
              THEN [sc EXCEPT !.last_run_at = now,
                              !.next_run_at = now + sc.interval_seconds,
                              !.active = TRUE]
              ELSE [sc EXCEPT !.last_run_at = now]]]

(* _run_schedule on the tickets, tasks and schedules st: create_ticket     *)
(* from the template, create_task on the new ticket if the schedule has a  *)
(* task_key, and the schedule's next occurrence.                           *)
RunSchedule(st, id) ==
    LET sc == st.schedules[id]
        tid == Len(st.tickets) + 1
        with_task == sc.task_key # NoTaskKey
    IN [tickets |-> Append(st.tickets,
            IF with_task
              THEN [NewTicket EXCEPT !.title = sc.ticket_title,
                                     !.stage = "running", !.status = "active"]
              ELSE [NewTicket EXCEPT !.title = sc.ticket_title]),
        tasks |-> IF with_task
                    THEN Append(st.tasks,
                           NewTask(tid, sc.task_key, "queued", sc.task_payload,
                                   sc.task_max_attempts, <<None, None>>, None, {}))
                    ELSE st.tasks,
        schedules |-> [st.schedules EXCEPT ![id] =
            IF Recurring(sc)
              THEN [sc EXCEPT !.last_run_at = now,
                              !.next_run_at = now + sc.interval_seconds,
                              !.active = TRUE]
              ELSE [sc EXCEPT !.last_run_at = now,
                              !.next_run_at = None,
                              !.active = FALSE]]]

(* process_due_schedules: `for schedule in due_rows`, from row k on *)
RECURSIVE RunSchedules(_, _, _)
RunSchedules(st, rows, k) ==
    IF k > Len(rows) THEN st
    ELSE RunSchedules(RunSchedule(st, rows[k]), rows, k + 1)

Store == [tickets |-> tickets, tasks |-> tasks, schedules |-> schedules]

trigger_schedule_once(id) ==
    /\ id \in 1..Len(schedules)
    /\ id \notin LockedSchedules
    /\ LET st == RunSchedule(Store, id)
       IN /\ tickets' = st.tickets
          /\ tasks' = st.tasks
          /\ schedules' = st.schedules
    /\ UNCHANGED <<events, workervars, leasevars, wsched, delay>>

ScheduleDue(sc) == sc.active /\ sc.next_run_at # None /\ sc.next_run_at <= now

(* process_due_schedules, the SELECT ... ORDER BY next_run_at LIMIT        *)
(* max(1, limit) FOR UPDATE SKIP LOCKED: `rows` is due_rows, any order the *)
(* database may return rows of equal next_run_at in.  A call that finds no *)
(* row returns 0 and changes nothing.                                      *)
ProcessDueSchedulesSelect(w, limit, rows) ==
    /\ pc[w] = "idle"
    /\ wsched[w] = NoBatch
    /\ LET due == SkipLockedSchedules({i \in 1..Len(schedules) : ScheduleDue(schedules[i])})
           n == Min(Max(1, limit), Cardinality(due))
       IN /\ due # {}
          /\ Len(rows) = n
          /\ Range(rows) \subseteq due
          /\ \A j, k \in 1..n :
               j < k => /\ rows[j] # rows[k]
                        /\ schedules[rows[j]].next_run_at <= schedules[rows[k]].next_run_at
          /\ \A i \in due \ Range(rows), k \in 1..n :
               schedules[rows[k]].next_run_at <= schedules[i].next_run_at
    /\ wsched' = [wsched EXCEPT ![w] = [limit |-> limit, rows |-> rows]]
    /\ UNCHANGED <<dbvars, workervars, leasevars, ops, schedules, delay>>

(* process_due_schedules, the loop over due_rows, and the commit of the    *)
(* session at the end of the loop iteration of worker.py.                  *)
ProcessDueSchedulesCommit(w) ==
    /\ pc[w] = "idle"
    /\ wsched[w] # NoBatch
    /\ LET st == RunSchedules(Store, wsched[w].rows, 1)
       IN /\ tickets' = st.tickets
          /\ tasks' = st.tasks
          /\ schedules' = st.schedules
    /\ wsched' = [wsched EXCEPT ![w] = NoBatch]
    /\ UNCHANGED <<events, workervars, leasevars, ops, delay>>

(* --------------------- worker_service.py: process_once ----------------- *)
NoResult ==
    [raised |-> FALSE, success |-> FALSE, defer |-> FALSE, defer_seconds |-> None,
     terminal_failure |-> FALSE, message |-> "none", output |-> EmptyOutput]

Result(success, defer, defer_seconds, terminal_failure, message, output) ==
    [raised |-> FALSE, success |-> success, defer |-> defer,
     defer_seconds |-> defer_seconds, terminal_failure |-> terminal_failure,
     message |-> message, output |-> output]

FailResult == Result(FALSE, FALSE, None, FALSE, "boom", EmptyOutput)
DeferResult == Result(FALSE, TRUE, 1, FALSE, "deferred", EmptyOutput)

(* What a registered executor outside the engine may hand back. *)
CustomResults ==
    { Result(TRUE, FALSE, None, FALSE, "ok", [kind |-> "custom", id |-> o]) :
        o \in OutputIds }
    \cup { FailResult, DeferResult,
           Result(FALSE, FALSE, None, TRUE, "terminal failure", EmptyOutput),
           [NoResult EXCEPT !.raised = TRUE, !.message = "execution raised"] }

NoopResult == Result(TRUE, FALSE, None, FALSE, "noop task completed", EmptyOutput)

ExecutorResults(key) ==
    IF key = "noop" THEN {NoopResult}
    ELSE IF key = "always_fail" THEN {FailResult}
    ELSE IF key = "defer" THEN {DeferResult}
    ELSE IF key = "defer_any"
      THEN {Result(FALSE, TRUE, d, FALSE, "deferred", EmptyOutput) : d \in DeferSeconds}
    ELSE CustomResults

(* WorkerRunResponse; `n` is the number a message is formatted with.  The *)
(* response of a call is kept until the worker's next call begins.        *)
Response(processed, task_id, message, n) ==
    [processed |-> processed, task_id |-> task_id, message |-> message, n |-> n]

NoResponse == Response(FALSE, 0, "none", 0)

NoSnap == [task |-> 0, lease_expires_at |-> None, cancel |-> FALSE]

EffectiveLease == Max(task_lease_seconds, MinLeaseSeconds)

(* The reaper with the timeout enforced only on a task it finds stale *)
ReapTask_stale_first(t) ==
    IF t.state # "running" THEN t
    ELSE IF ~is_stale_running_task(now, t.lease_expires_at, t.started_at,
                                   Max(stale_task_timeout_seconds, MinStaleSeconds))
      THEN t
    ELSE IF task_timeout_exceeded(t)
      THEN FinalizeRetryOrDeadLetter([t EXCEPT !.attempt_count = t.attempt_count + 1],
                                     "task timed out")
    ELSE IF t.cancel_requested THEN MarkTaskCancelled(t)
    ELSE FinalizeRetryOrDeadLetter([t EXCEPT !.attempt_count = t.attempt_count + 1],
                                   "task lease expired while running")

(* _reap_stale_running_tasks, one row *)
ReapTask(t) ==
    IF t.state # "running" THEN t
    ELSE IF task_timeout_exceeded(t)
      THEN FinalizeRetryOrDeadLetter([t EXCEPT !.attempt_count = t.attempt_count + 1],
                                     "task timed out")
    ELSE IF ~is_stale_running_task(now, t.lease_expires_at, t.started_at,
                                   Max(stale_task_timeout_seconds, MinStaleSeconds))
      THEN t
    ELSE IF t.cancel_requested THEN MarkTaskCancelled(t)
    ELSE FinalizeRetryOrDeadLetter([t EXCEPT !.attempt_count = t.attempt_count + 1],
                                   "task lease expired while running")

Reap(w) ==
    /\ pc[w] = "idle"
    /\ LET rows == SkipLocked({i \in 1..Len(tasks) : tasks[i].state = "running"})
       IN tasks' = [i \in 1..Len(tasks) |->
                      IF i \in rows THEN ReapTask(tasks[i]) ELSE tasks[i]]
    /\ pc' = [pc EXCEPT ![w] = "claim"]
    /\ wresp' = [wresp EXCEPT ![w] = NoResponse]
    /\ UNCHANGED <<tickets, events, wtask, wresult, wevent, wcancel, wcand, leasevars, ops, schedvars, delay>>

CancelPending_waiting_only(t) ==
    t.cancel_requested /\ t.state \in {"queued", "retrying"}

(* _finalize_requested_cancellations *)
CancelPending(t) ==
    t.cancel_requested /\ t.state \in {"queued", "retrying", "paused", "blocked"}

FinalizeRequestedCancellations(ts, rows) ==
    [i \in 1..Len(ts) |-> IF i \in rows THEN MarkTaskCancelled(ts[i]) ELSE ts[i]]

dependencies_satisfied_among_existing(ts, i) ==
    \A d \in ts[i].depends_on : d \in 1..Len(ts) => ts[d].state = "completed"

dependencies_satisfied_when_none(ts, i) == ts[i].depends_on = {}

dependencies_satisfied(ts, i) ==
    \A d \in ts[i].depends_on : d \in 1..Len(ts) /\ ts[d].state = "completed"

Eligible(t) ==
    /\ t.state \in {"queued", "retrying"}
    /\ t.next_run_at = None \/ t.next_run_at <= now
    /\ ~t.cancel_requested

ClaimTask_without_lease(t, w) ==
    [t EXCEPT !.state = "running",
              !.attempt_count = OrElse(t.attempt_count, 0) + 1,
              !.started_at = now,
              !.next_run_at = None,
              !.claimed_by = w,
              !.claimed_at = now]

ClaimTask(t, w) ==
    [t EXCEPT !.max_attempts = normalize_max_attempts(t.max_attempts, default_max_attempts),
              !.state = "running",
              !.attempt_count = OrElse(t.attempt_count, 0) + 1,
              !.started_at = now,
              !.next_run_at = None,
              !.claimed_by = w,
              !.claimed_at = now,
              !.lease_expires_at = lease_expires_at(now, EffectiveLease)]

(* The walk over the candidates, given up at the first candidate whose     *)
(* dependencies are not satisfied.                                         *)
RECURSIVE ClaimWalk_stopping_at_unsatisfied(_, _, _, _)
ClaimWalk_stopping_at_unsatisfied(ts, cand, i, w) ==
    IF i > Len(ts) THEN [tasks |-> ts, claimed |-> 0]
    ELSE IF i \notin cand THEN ClaimWalk_stopping_at_unsatisfied(ts, cand, i + 1, w)
    ELSE IF ts[i].ticket_id \notin 1..Len(tickets)
      THEN ClaimWalk_stopping_at_unsatisfied(
             [ts EXCEPT ![i] = MarkTaskTerminalFailure(ts[i], "missing ticket")],
             cand, i + 1, w)
    ELSE IF tickets[ts[i].ticket_id].paused
      THEN ClaimWalk_stopping_at_unsatisfied([ts EXCEPT ![i] = ParkTaskForPause(ts[i])],
                                             cand, i + 1, w)
    ELSE IF ApprovalPending(tickets[ts[i].ticket_id])
      THEN ClaimWalk_stopping_at_unsatisfied([ts EXCEPT ![i] = ParkTaskForApproval(ts[i])],
                                             cand, i + 1, w)
    ELSE IF dependencies_satisfied(ts, i)
      THEN [tasks |-> [ts EXCEPT ![i] = ClaimTask(ts[i], w)], claimed |-> i]
    ELSE [tasks |-> ts, claimed |-> 0]

(* _claim_next_task: the walk over the candidates in created_at order      *)
(* (ids are handed out in creation order), from candidate i on.            *)
RECURSIVE ClaimWalk(_, _, _, _)
ClaimWalk(ts, cand, i, w) ==
    IF i > Len(ts) THEN [tasks |-> ts, claimed |-> 0]
    ELSE IF i \notin cand THEN ClaimWalk(ts, cand, i + 1, w)
    ELSE IF ts[i].ticket_id \notin 1..Len(tickets)
      THEN ClaimWalk([ts EXCEPT ![i] = MarkTaskTerminalFailure(ts[i], "missing ticket")],
                     cand, i + 1, w)
    ELSE IF tickets[ts[i].ticket_id].paused
      THEN ClaimWalk([ts EXCEPT ![i] = ParkTaskForPause(ts[i])], cand, i + 1, w)
    ELSE IF ApprovalPending(tickets[ts[i].ticket_id])
      THEN ClaimWalk([ts EXCEPT ![i] = ParkTaskForApproval(ts[i])], cand, i + 1, w)
    ELSE IF dependencies_satisfied(ts, i)
      THEN [tasks |-> [ts EXCEPT ![i] = ClaimTask(ts[i], w)], claimed |-> i]
    ELSE ClaimWalk(ts, cand, i + 1, w)

(* claim_session: the two SELECT ... FOR UPDATE SKIP LOCKED statements of  *)
(* _finalize_requested_cancellations and _claim_next_task.                 *)
ClaimSelect(w) ==
    /\ pc[w] = "claim"
    /\ LET pending == SkipLocked({i \in 1..Len(tasks) : CancelPending(tasks[i])})
           cand == SkipLocked({i \in 1..Len(tasks) : Eligible(tasks[i])})
       IN /\ wcancel' = [wcancel EXCEPT ![w] = pending]
          /\ wcand' = [wcand EXCEPT ![w] = cand]
    /\ pc' = [pc EXCEPT ![w] = "claiming"]
    /\ UNCHANGED <<dbvars, wtask, wresult, wevent, wresp, leasevars, ops, schedvars, delay>>

(* process_once: what it returns when the claim session claimed nothing *)
ClaimResponse(cancelled_before_claim) ==
    IF cancelled_before_claim > 0
      THEN Response(TRUE, 0, "cancelled task(s)", cancelled_before_claim)
      ELSE Response(FALSE, 0, "no queued task", 0)

(* claim_session: the cancellations, the walk over the candidates, the     *)
(* commit.                                                                 *)
ClaimCommit(w) ==
    /\ pc[w] = "claiming"
    /\ LET ts1 == FinalizeRequestedCancellations(tasks, wcancel[w])
           tks1 == SyncTickets(tickets, ts1, {ts1[i].ticket_id : i \in wcancel[w]})
           r == ClaimWalk(ts1, wcand[w], 1, w)
       IN /\ r.claimed # 0 => r.tasks[r.claimed].attempt_count <= MaxAttemptCount
          /\ tasks' = r.tasks
          /\ tickets' = tks1
          /\ IF r.claimed = 0
               THEN /\ pc' = [pc EXCEPT ![w] = "idle"]
                    /\ wresp' = [wresp EXCEPT ![w] = ClaimResponse(Cardinality(wcancel[w]))]
                    /\ UNCHANGED wtask
               ELSE /\ pc' = [pc EXCEPT ![w] = "gate"]
                    /\ wtask' = [wtask EXCEPT ![w] = r.claimed]
                    /\ UNCHANGED wresp
    /\ wcancel' = [wcancel EXCEPT ![w] = {}]
    /\ wcand' = [wcand EXCEPT ![w] = {}]
    /\ UNCHANGED <<events, wresult, wevent, leasevars, ops, schedvars, delay>>

(* The pre-execution gates without the one for cancel_requested *)
Gate_executing_cancel_requested(w) ==
    /\ pc[w] = "gate"
    /\ RowFree(wtask[w])
    /\ LET i == wtask[w]
           t == tasks[i]
           tid == t.ticket_id
           tk == tickets[tid]
           parked == IF tk.paused THEN ParkTaskForPause(t)
                     ELSE IF ApprovalPending(tk) THEN ParkTaskForApproval(t)
                     ELSE MarkTaskTerminalFailure(t, "unknown task_key")
           stop == tk.paused \/ ApprovalPending(tk)
                   \/ t.task_key \notin RegisteredKeys
           message == IF tk.paused THEN "ticket paused before execution"
                      ELSE IF ApprovalPending(tk)
                        THEN "ticket awaiting approval before execution"
                      ELSE "unknown task_key"
       IN IF stop
            THEN /\ tasks' = [tasks EXCEPT ![i] = parked]
                 /\ tickets' = [tickets EXCEPT ![tid] = SyncTicket(tk, tasks', tid)]
                 /\ pc' = [pc EXCEPT ![w] = "idle"]
                 /\ wresp' = [wresp EXCEPT ![w] = Response(TRUE, i, message, 0)]
                 /\ UNCHANGED renewer
            ELSE /\ pc' = [pc EXCEPT ![w] = "exec"]
                 /\ renewer' = [renewer EXCEPT ![w] = "wait"]
                 /\ UNCHANGED <<tasks, tickets, wresp>>
    /\ UNCHANGED <<events, wtask, wresult, wevent, wcancel, wcand, rsnap, lingering, ops, schedvars, delay>>

(* process_once, load_session: the pre-execution gates *)
Gate(w) ==
    /\ pc[w] = "gate"
    /\ RowFree(wtask[w])
    /\ LET i == wtask[w]
           t == tasks[i]
           tid == t.ticket_id
           tk == tickets[tid]
           parked == IF tk.paused THEN ParkTaskForPause(t)
                     ELSE IF ApprovalPending(tk) THEN ParkTaskForApproval(t)
                     ELSE IF t.cancel_requested THEN MarkTaskCancelled(t)
                     ELSE MarkTaskTerminalFailure(t, "unknown task_key")
           stop == tk.paused \/ ApprovalPending(tk) \/ t.cancel_requested
                   \/ t.task_key \notin RegisteredKeys
           message == IF tk.paused THEN "ticket paused before execution"
                      ELSE IF ApprovalPending(tk)
                        THEN "ticket awaiting approval before execution"
                      ELSE IF t.cancel_requested THEN "cancelled before execution"
                      ELSE "unknown task_key"
       IN IF stop
            THEN /\ tasks' = [tasks EXCEPT ![i] = parked]
                 /\ tickets' = [tickets EXCEPT ![tid] = SyncTicket(tk, tasks', tid)]
                 /\ pc' = [pc EXCEPT ![w] = "idle"]
                 /\ wresp' = [wresp EXCEPT ![w] = Response(TRUE, i, message, 0)]
                 /\ UNCHANGED renewer
            ELSE /\ pc' = [pc EXCEPT ![w] = "exec"]
                 /\ renewer' = [renewer EXCEPT ![w] = "wait"]
                 /\ UNCHANGED <<tasks, tickets, wresp>>
    /\ UNCHANGED <<events, wtask, wresult, wevent, wcancel, wcand, rsnap, lingering, ops, schedvars, delay>>

(* stop_lease_event.set() and the bounded join: a renewer iteration that   *)
(* has read the row and not yet committed outlives the join.               *)
StopRenewer(w) ==
    /\ renewer[w] = "read" => Cardinality(lingering \cup {rsnap[w]}) <= MaxLingering
    /\ renewer' = [renewer EXCEPT ![w] = "off"]
    /\ rsnap' = [rsnap EXCEPT ![w] = NoSnap]
    /\ lingering' = IF renewer[w] = "read" THEN lingering \cup {rsnap[w]} ELSE lingering

(* executor.execute for noop and for a registered custom executor *)
Execute(w) ==
    /\ pc[w] = "exec"
    /\ tasks[wtask[w]].task_key # "wait_for_event"
    /\ \E res \in ExecutorResults(tasks[wtask[w]].task_key) :
         wresult' = [wresult EXCEPT ![w] = res]
    /\ pc' = [pc EXCEPT ![w] = "finalize"]
    /\ StopRenewer(w)
    /\ UNCHANGED <<dbvars, wtask, wevent, wcancel, wcand, wresp, ops, schedvars, delay>>

RECURSIVE get_unconsumed_ticket_event_of_any_type(_, _, _, _)
get_unconsumed_ticket_event_of_any_type(evs, i, tid, event_type) ==
    IF i > Len(evs) THEN 0
    ELSE IF evs[i].ticket_id = tid /\ evs[i].consumed_at = None THEN i
    ELSE get_unconsumed_ticket_event_of_any_type(evs, i + 1, tid, event_type)

(* repositories.get_unconsumed_ticket_event: the oldest unconsumed event   *)
(* of the ticket and type (events are appended in created_at order), 0     *)
(* when there is none.                                                     *)
RECURSIVE get_unconsumed_ticket_event(_, _, _, _)
get_unconsumed_ticket_event(evs, i, tid, event_type) ==
    IF i > Len(evs) THEN 0
    ELSE IF evs[i].ticket_id = tid /\ evs[i].event_type = event_type
            /\ evs[i].consumed_at = None
      THEN i
    ELSE get_unconsumed_ticket_event(evs, i + 1, tid, event_type)

EventResult(e) ==
    Result(TRUE, FALSE, None, FALSE, "received event", [kind |-> "event", id |-> e])

(* WaitForEventExecutor.execute up to and including the SELECT *)
WaitForEventRead(w) ==
    /\ pc[w] = "exec"
    /\ tasks[wtask[w]].task_key = "wait_for_event"
    /\ LET t == tasks[wtask[w]]
           event_type == t.payload.event_type
           row == get_unconsumed_ticket_event(events, 1, t.ticket_id, event_type)
       IN IF event_type = ""
            THEN /\ wresult' = [wresult EXCEPT ![w] =
                       Result(FALSE, FALSE, None, TRUE, "terminal failure", EmptyOutput)]
                 /\ pc' = [pc EXCEPT ![w] = "finalize"]
                 /\ StopRenewer(w)
                 /\ UNCHANGED wevent
          ELSE IF row # 0 /\ t.payload.consume
            THEN /\ wevent' = [wevent EXCEPT ![w] = row]
                 /\ pc' = [pc EXCEPT ![w] = "consume"]
                 /\ UNCHANGED <<wresult, leasevars>>
          ELSE IF row # 0
            THEN /\ wresult' = [wresult EXCEPT ![w] = EventResult(row)]
                 /\ pc' = [pc EXCEPT ![w] = "finalize"]
                 /\ StopRenewer(w)
                 /\ UNCHANGED wevent
          ELSE /\ wresult' = [wresult EXCEPT ![w] =
                     Result(FALSE, TRUE, Max(1, OrElse(t.payload.poll_interval_seconds,
                                                       event_wait_poll_interval_seconds)),
                            FALSE, "deferred", EmptyOutput)]
               /\ pc' = [pc EXCEPT ![w] = "finalize"]
               /\ StopRenewer(w)
               /\ UNCHANGED wevent
    /\ UNCHANGED <<dbvars, wtask, wcancel, wcand, wresp, ops, schedvars, delay>>

(* WaitForEventExecutor.execute: the UPDATE of the row it read and commit *)
WaitForEventConsume(w) ==
    /\ pc[w] = "consume"
    /\ events' = [events EXCEPT ![wevent[w]] =
          [@ EXCEPT !.consumed_at = now, !.consumed_by_task_id = wtask[w]]]
    /\ wresult' = [wresult EXCEPT ![w] = EventResult(wevent[w])]
    /\ wevent' = [wevent EXCEPT ![w] = 0]
    /\ pc' = [pc EXCEPT ![w] = "finalize"]
    /\ StopRenewer(w)
    /\ UNCHANGED <<tickets, tasks, wtask, wcancel, wcand, wresp, ops, schedvars, delay>>

FinalizeTask_outcome_first(live, res) ==
    IF res.raised THEN FinalizeRetryOrDeadLetter(live, "execution raised")
    ELSE IF res.defer THEN FinalizeDeferredTask(live, res.message, res.defer_seconds)
    ELSE IF res.success THEN FinalizeSuccess(live, res.output)
    ELSE IF live.cancel_requested THEN MarkTaskCancelled(live)
    ELSE IF res.terminal_failure THEN MarkTaskTerminalFailure(live, res.message)
    ELSE FinalizeRetryOrDeadLetter(live, res.message)

(* process_once, finalize_session *)
FinalizeTask(live, res) ==
    IF res.raised THEN FinalizeRetryOrDeadLetter(live, "execution raised")
    ELSE IF live.cancel_requested THEN MarkTaskCancelled(live)
    ELSE IF res.defer THEN FinalizeDeferredTask(live, res.message, res.defer_seconds)
    ELSE IF res.success THEN FinalizeSuccess(live, res.output)
    ELSE IF res.terminal_failure THEN MarkTaskTerminalFailure(live, res.message)
    ELSE FinalizeRetryOrDeadLetter(live, res.message)

RetryOrDeadLetterResponse(t, i, message) ==
    LET max_attempts == normalize_max_attempts(t.max_attempts, default_max_attempts)
        t1 == [t EXCEPT !.max_attempts = max_attempts]
    IN IF should_dead_letter(t.attempt_count, max_attempts)
         THEN Response(TRUE, i, message, 0)
         ELSE Response(TRUE, i, "retry scheduled",
                       compute_retry_delay_seconds(t.attempt_count,
                                                   RetryBase(t1), RetryMax(t1)))

FinalizeResponse(live, i, res) ==
    IF res.raised THEN RetryOrDeadLetterResponse(live, i, "execution raised")
    ELSE IF live.cancel_requested THEN Response(TRUE, i, "cancelled", 0)
    ELSE IF res.defer
      THEN Response(TRUE, i, "deferred",
                    Max(OrElse(res.defer_seconds, event_wait_poll_interval_seconds), 1))
    ELSE IF res.success THEN Response(TRUE, i, "completed", 0)
    ELSE IF res.terminal_failure THEN Response(TRUE, i, res.message, 0)
    ELSE RetryOrDeadLetterResponse(live, i, res.message)

Finalize(w) ==
    /\ pc[w] = "finalize"
    /\ RowFree(wtask[w])
    /\ LET i == wtask[w]
           tid == tasks[i].ticket_id
       IN /\ tasks' = [tasks EXCEPT ![i] = FinalizeTask(tasks[i], wresult[w])]
          /\ tickets' = [tickets EXCEPT ![tid] = SyncTicket(tickets[tid], tasks', tid)]
    /\ pc' = [pc EXCEPT ![w] = "idle"]
    /\ wtask' = [wtask EXCEPT ![w] = 0]
    /\ wresult' = [wresult EXCEPT ![w] = NoResult]
    /\ wresp' = [wresp EXCEPT ![w] = FinalizeResponse(tasks[wtask[w]], wtask[w], wresult[w])]
    /\ UNCHANGED <<events, wevent, wcancel, wcand, leasevars, ops, schedvars, delay>>

(* _lease_renewer_loop: the read half of one iteration *)
LeaseRead(w) ==
    /\ renewer[w] = "wait"
    /\ LET t == tasks[wtask[w]]
       IN IF t.state # "running" \/ t.claimed_by # w
            THEN /\ renewer' = [renewer EXCEPT ![w] = "off"]
                 /\ UNCHANGED rsnap
            ELSE /\ renewer' = [renewer EXCEPT ![w] = "read"]
                 /\ rsnap' = [rsnap EXCEPT ![w] =
                       [task |-> wtask[w],
                        lease_expires_at |-> lease_expires_at(now, EffectiveLease),
                        cancel |-> tickets[t.ticket_id].paused]]
    /\ UNCHANGED <<dbvars, workervars, lingering, ops, schedvars, delay>>

(* The UPDATE a renewer iteration commits: the columns it changed. *)
LeaseUpdate(t, snap) ==
    [t EXCEPT !.lease_expires_at = snap.lease_expires_at,
              !.cancel_requested = IF snap.cancel THEN TRUE ELSE @]

(* _lease_renewer_loop: the commit of the iteration *)
LeaseWrite(w) ==
    /\ renewer[w] = "read"
    /\ RowFree(rsnap[w].task)
    /\ tasks' = [tasks EXCEPT ![rsnap[w].task] = LeaseUpdate(@, rsnap[w])]
    /\ renewer' = [renewer EXCEPT ![w] = "wait"]
    /\ rsnap' = [rsnap EXCEPT ![w] = NoSnap]
    /\ UNCHANGED <<tickets, events, workervars, lingering, ops, schedvars, delay>>

(* The commit of an iteration that outlived the join of its process_once. *)
LateLeaseWrite(snap) ==
    /\ snap \in lingering
    /\ RowFree(snap.task)
    /\ tasks' = [tasks EXCEPT ![snap.task] = LeaseUpdate(@, snap)]
    /\ lingering' = lingering \ {snap}
    /\ UNCHANGED <<tickets, events, workervars, renewer, rsnap, ops, schedvars, delay>>

(* The worker process dies between two transactions of a process_once     *)
(* that has claimed a task: the main loop and the renewer thread end, the  *)
(* task row stays as the last commit left it.                              *)
Crash(w) ==
    /\ pc[w] \in {"gate", "exec", "finalize"}
    /\ pc' = [pc EXCEPT ![w] = "crashed"]
    /\ wtask' = [wtask EXCEPT ![w] = 0]
    /\ wresult' = [wresult EXCEPT ![w] = NoResult]
    /\ renewer' = [renewer EXCEPT ![w] = "off"]
    /\ rsnap' = [rsnap EXCEPT ![w] = NoSnap]
    /\ UNCHANGED <<dbvars, wevent, wcancel, wcand, wresp, lingering, ops, schedvars, delay>>

(* The clock advances by TickSeconds: every stored timestamp moves back    *)
(* by as much relative to now.                                             *)
ShiftDeadline(v) == IF v = None THEN None ELSE Max(v - TickSeconds, 0)
ShiftStarted(v) == IF v = None THEN None ELSE Max(v - TickSeconds, 0 - PastHorizon)

Tick ==
    /\ tasks' = [i \in 1..Len(tasks) |->
          [tasks[i] EXCEPT !.next_run_at = ShiftDeadline(@),
                           !.lease_expires_at = ShiftDeadline(@),
                           !.claimed_at = ShiftDeadline(@),
                           !.completed_at = ShiftDeadline(@),
                           !.started_at = ShiftStarted(@)]]
    /\ tickets' = [i \in 1..Len(tickets) |->
          [tickets[i] EXCEPT !.completed_at = ShiftDeadline(@)]]
    /\ events' = [i \in 1..Len(events) |->
          [events[i] EXCEPT !.consumed_at = ShiftDeadline(@)]]
    /\ rsnap' = [w \in Workers |->
          [rsnap[w] EXCEPT !.lease_expires_at = ShiftDeadline(@)]]
    /\ lingering' = {[sn EXCEPT !.lease_expires_at = ShiftDeadline(@)] : sn \in lingering}
    /\ schedules' = [i \in 1..Len(schedules) |->
          [schedules[i] EXCEPT !.next_run_at = ShiftStarted(@),
                               !.last_run_at = ShiftStarted(@)]]
    /\ UNCHANGED <<workervars, renewer, ops, wsched, delay>>

(* ------------------------------ behaviour ------------------------------ *)
InitEngine ==
    /\ tickets = << >>
    /\ tasks = << >>
    /\ events = << >>
    /\ pc = [w \in Workers |-> "idle"]
    /\ wtask = [w \in Workers |-> 0]
    /\ wresult = [w \in Workers |-> NoResult]
    /\ wevent = [w \in Workers |-> 0]
    /\ wcancel = [w \in Workers |-> {}]
    /\ wcand = [w \in Workers |-> {}]
    /\ wresp = [w \in Workers |-> NoResponse]
    /\ renewer = [w \in Workers |-> "off"]
    /\ rsnap = [w \in Workers |-> NoSnap]
    /\ lingering = {}
    /\ ops = 0
    /\ schedules = << >>
    /\ wsched = [w \in Workers |-> NoBatch]

Init == InitEngine /\ delay = NoDelay

TicketIds == 1..MaxTickets

CreateTaskFrom(cap, keys, max_attempts, timeouts, depends) ==
    /\ Len(tasks) < cap
    /\ \E tid \in TicketIds, key \in keys, payload \in PayloadInputs,
          ma \in max_attempts, retry \in RetryInputs, timeout \in timeouts,
          deps \in depends :
         create_task(tid, key, payload, ma, retry, timeout, deps)

TransitionTicket ==
    \E tid \in TicketIds, target \in {NoTarget} \cup StageIds \cup {"finished"},
       ctx_ok \in BOOLEAN :
      transition_ticket(tid, target, ctx_ok)

PublishEventFrom(cap, tids, types) ==
    /\ Len(events) < cap
    /\ \E tid \in tids, ty \in types : publish_event(tid, ty)

PublishEvent == PublishEventFrom(MaxEvents, TicketIds, EventTypes)

Operator ==
    \/ TransitionTicket /\ OperatorCall
    \/ \E tid \in TicketIds : request_approval(tid) /\ OperatorCall
    \/ \E tid \in TicketIds : approve_ticket(tid) /\ OperatorCall
    \/ \E tid \in TicketIds : reject_ticket(tid) /\ OperatorCall
    \/ \E tid \in TicketIds : pause_ticket(tid) /\ OperatorCall
    \/ \E tid \in TicketIds : resume_ticket(tid) /\ OperatorCall
    \/ \E i \in 1..Len(tasks) : request_task_cancel(i) /\ OperatorCall

(* One step of a worker's process_once, or of its lease renewer thread. *)
Worker(w) ==
    \/ Reap(w)
    \/ ClaimSelect(w)
    \/ ClaimCommit(w)
    \/ Gate(w)
    \/ Execute(w)
    \/ Finalize(w)
    \/ LeaseRead(w)
    \/ LeaseWrite(w)

Late == \E snap \in lingering : LateLeaseWrite(snap)

(* One task of one ticket without a timeout, served by an executor whose   *)
(* result the engine does not determine, two workers, and up to MaxOps     *)
(* operator calls.                                                         *)
Next ==
    \/ create_ticket
    \/ CreateTaskFrom(MaxTasks, {"custom"}, {None, 1}, {None}, {{}})
    \/ Operator
    \/ \E w \in Workers : Worker(w)
    \/ Late
    \/ Tick

Spec == Init /\ [][Next]_vars

(* Up to DepTasks tasks of one ticket with dependencies between them (on   *)
(* themselves, on each other, on a task that does not exist), served by    *)
(* the noop executor, by one that always fails or by none.                 *)
NextDeps ==
    \/ create_ticket
    \/ CreateTaskFrom(DepTasks, {"noop", "always_fail", "unknown"}, {1}, {None},
                      {{}, {1}, {2}, {DepTasks + 1}})
    \/ \E w \in Workers : Worker(w)
    \/ Late
    \/ Tick

SpecDeps == Init /\ [][NextDeps]_vars

(* Up to EventTasks wait_for_event tasks of one ticket and up to MaxEvents *)
(* published events of the type they wait for.                             *)
WorkerEvents(w) ==
    \/ Reap(w)
    \/ ClaimSelect(w)
    \/ ClaimCommit(w)
    \/ Gate(w)
    \/ WaitForEventRead(w)
    \/ WaitForEventConsume(w)
    \/ Finalize(w)
    \/ LeaseRead(w)
    \/ LeaseWrite(w)

NextEvents ==
    \/ create_ticket
    \/ CreateTaskFrom(EventTasks, {"wait_for_event"}, {1}, {None}, {{}})
    \/ PublishEvent
    \/ \E w \in Workers : WorkerEvents(w)
    \/ Late
    \/ Tick

SpecEvents == Init /\ [][NextEvents]_vars

(* The clock advances while no task is running: no lease expires and no   *)
(* timeout elapses during an execution.                                    *)
QuietTick ==
    /\ \A i \in 1..Len(tasks) : tasks[i].state # "running"
    /\ Tick

(* One task whose executor fails or defers every execution, with           *)
(* max_attempts 1, 2 or the default, no operator call and no lease expiry: *)
(* the clock stands while the task runs, and no renewer iteration commits  *)
(* after the process_once it belongs to, so the reaper never finds a stale *)
(* task.                                                                   *)
NextRetry ==
    \/ create_ticket
    \/ CreateTaskFrom(MaxTasks, {"always_fail", "defer", "defer_any"}, {None, 1, 2},
                      {None}, {{}})
    \/ \E w \in Workers : Worker(w)
    \/ QuietTick

SpecRetry == Init /\ [][NextRetry]_vars

(* Up to CancelTasks noop tasks of one ticket and up to CancelOps cancel    *)
(* requests and pauses.                                                    *)
NextCancel ==
    \/ create_ticket
    \/ CreateTaskFrom(CancelTasks, {"noop"}, {1}, {None}, {{}})
    \/ \E i \in 1..Len(tasks) : request_task_cancel(i) /\ OperatorCallWithin(CancelOps)
    \/ \E tid \in TicketIds : pause_ticket(tid) /\ OperatorCallWithin(CancelOps)
    \/ \E w \in Workers : Worker(w)
    \/ Late
    \/ Tick

SpecCancel == Init /\ [][NextCancel]_vars

(* One wait_for_event task, up to MaxEvents published events, and up to  *)
(* CancelOps cancel requests and pauses while the task waits or runs.      *)
NextEventCancel ==
    \/ create_ticket
    \/ CreateTaskFrom(MaxTasks, {"wait_for_event"}, {1}, {None}, {{}})
    \/ PublishEvent
    \/ \E i \in 1..Len(tasks) : request_task_cancel(i) /\ OperatorCallWithin(CancelOps)
    \/ \E tid \in TicketIds : pause_ticket(tid) /\ OperatorCallWithin(CancelOps)
    \/ \E w \in Workers : WorkerEvents(w)
    \/ Late
    \/ Tick

SpecEventCancel == Init /\ [][NextEventCancel]_vars

(* One noop task, with or without a timeout, at most one cancel request;   *)
(* worker CrashedWorker may die while it holds the task, worker Survivor   *)
(* keeps calling process_once (the `while True` of the worker's main       *)
(* loop) and the clock keeps advancing.                                    *)
CrashedWorker == "w1"
Survivor == "w2"

NextCrash ==
    \/ create_ticket
    \/ CreateTaskFrom(MaxTasks, {"noop"}, {None, 1, 2}, TimeoutInputs, {{}})
    \/ \E i \in 1..Len(tasks) : request_task_cancel(i) /\ OperatorCall
    \/ \E w \in Workers : Worker(w)
    \/ Crash(CrashedWorker)
    \/ Late
    \/ Tick

SpecCrash ==
    /\ Init /\ [][NextCrash]_vars
    /\ WF_vars(Tick)
    /\ WF_vars(Reap(Survivor))
    /\ WF_vars(ClaimSelect(Survivor))
    /\ WF_vars(ClaimCommit(Survivor))
    /\ WF_vars(Gate(Survivor))
    /\ WF_vars(Execute(Survivor))
    /\ WF_vars(Finalize(Survivor))

(* Up to FifoTasks wait_for_event tasks of the first ticket waiting for    *)
(* "go", and up to FifoEvents events of two types published to either of   *)
(* FifoTickets tickets.  Every execution ends before the renewer's first   *)
(* iteration (it waits renew_interval seconds first).                      *)
FifoEventTypes == {"go", "stop"}

WorkerFifo(w) ==
    \/ Reap(w)
    \/ ClaimSelect(w)
    \/ ClaimCommit(w)
    \/ Gate(w)
    \/ WaitForEventRead(w)
    \/ WaitForEventConsume(w)
    \/ Finalize(w)

NextFifo ==
    \/ CreateTicketFrom(FifoTickets)
    \/ CreateTaskFrom(FifoTasks, {"wait_for_event"}, {1}, {None}, {{}})
    \/ PublishEventFrom(FifoEvents, 1..FifoTickets, FifoEventTypes)
    \/ \E w \in Workers : WorkerFifo(w)
    \/ Tick

SpecFifo == Init /\ [][NextFifo]_vars

(* The happy path: up to HappyTasks noop tasks of one ticket, each          *)
(* depending on nothing or on a task created before it, no operator call.  *)
(* Every worker keeps calling process_once and finishes the call it is in  *)
(* (the `while True` of the main loop), and the clock keeps advancing.     *)
(* A renewer iteration that has read the row commits.  The executor        *)
(* returns whatever the renewer thread is doing, hence the strong fairness *)
(* of Execute: its step waits for the renewer only where MaxLingering      *)
(* bounds the iterations in flight.                                        *)
NextHappy ==
    \/ create_ticket
    \/ CreateTaskFrom(HappyTasks, {"noop"}, {1}, {None},
                      {{}} \cup {{d} : d \in 1..Len(tasks)})
    \/ \E w \in Workers : Worker(w)
    \/ Late
    \/ Tick

ProcessOnceFair(w) ==
    /\ WF_vars(Reap(w))
    /\ WF_vars(ClaimSelect(w))
    /\ WF_vars(ClaimCommit(w))
    /\ WF_vars(Gate(w))
    /\ SF_vars(Execute(w))
    /\ WF_vars(Finalize(w))
    /\ WF_vars(LeaseWrite(w))

SpecHappy ==
    /\ Init /\ [][NextHappy]_vars
    /\ WF_vars(Tick)
    /\ WF_vars(Late)
    /\ \A w \in Workers : ProcessOnceFair(w)

(* The state policy on its own: a ticket in any combination of paused,     *)
(* approval_required and approval_status, with up to PolicyTasks tasks in  *)
(* any states, and the worker's sync applying the policy to it.            *)
TaskStates ==
    {"queued", "running", "retrying", "paused", "blocked",
     "completed", "failed", "dead_letter", "cancelled"}

ApprovalStatuses == {"none", "pending", "approved", "rejected"}

InitPolicy ==
    /\ \E paused \in BOOLEAN, approval_required \in BOOLEAN,
          approval_status \in ApprovalStatuses,
          stage \in {"queued", "running", "finished"}, completed_at \in {None, now} :
         tickets = << [NewTicket EXCEPT !.paused = paused,
                                        !.approval_required = approval_required,
                                        !.approval_status = approval_status,
                                        !.stage = stage,
                                        !.completed_at = completed_at] >>
    /\ \E n \in 0..PolicyTasks :
         \E states \in [1..n -> TaskStates] :
           tasks = [i \in 1..n |->
                      NewTask(1, "noop", states[i], [event_type |-> "", consume |-> FALSE,
                                                     poll_interval_seconds |-> None],
                              None, <<None, None>>, None, {})]
    /\ events = << >>
    /\ pc = [w \in Workers |-> "idle"]
    /\ wtask = [w \in Workers |-> 0]
    /\ wresult = [w \in Workers |-> NoResult]
    /\ wevent = [w \in Workers |-> 0]
    /\ wcancel = [w \in Workers |-> {}]
    /\ wcand = [w \in Workers |-> {}]
    /\ wresp = [w \in Workers |-> NoResponse]
    /\ renewer = [w \in Workers |-> "off"]
    /\ rsnap = [w \in Workers |-> NoSnap]
    /\ lingering = {}
    /\ ops = 0
    /\ schedules = << >>
    /\ wsched = [w \in Workers |-> NoBatch]
    /\ delay = NoDelay

(* _sync_ticket_state on the ticket *)
SyncTicketState ==
    /\ tickets' = SyncTickets(tickets, tasks, {1})
    /\ UNCHANGED <<tasks, events, workervars, leasevars, ops, schedvars, delay>>

SpecPolicy == InitPolicy /\ [][SyncTicketState]_vars

(* pause_ticket answered at once by resume_ticket: while the ticket is     *)
(* paused nothing else happens.  One task served by noop, by an executor   *)
(* that always fails or by none, and up to PauseOps operator calls, among  *)
(* them request_approval and reject_ticket, after which the approval is    *)
(* not pending and the task is still blocked.                              *)
NoTicketPaused == \A tid \in 1..Len(tickets) : ~tickets[tid].paused

UnpausedWorker(w) ==
    \/ NoTicketPaused /\ Reap(w)
    \/ NoTicketPaused /\ ClaimSelect(w)
    \/ NoTicketPaused /\ ClaimCommit(w)
    \/ NoTicketPaused /\ Gate(w)
    \/ NoTicketPaused /\ Execute(w)
    \/ NoTicketPaused /\ Finalize(w)
    \/ NoTicketPaused /\ LeaseRead(w)
    \/ NoTicketPaused /\ LeaseWrite(w)

NextPauseResume ==
    \/ NoTicketPaused /\ create_ticket
    \/ NoTicketPaused
         /\ CreateTaskFrom(MaxTasks, {"noop", "always_fail", "unknown"}, {2}, {None}, {{}})
    \/ NoTicketPaused
         /\ \E tid \in TicketIds : request_approval(tid) /\ OperatorCallWithin(PauseOps)
    \/ NoTicketPaused
         /\ \E tid \in TicketIds : reject_ticket(tid) /\ OperatorCallWithin(PauseOps)
    \/ NoTicketPaused
         /\ \E tid \in 1..Len(tickets) :
              /\ ~ApprovalPending(tickets[tid])
              /\ pause_ticket(tid) /\ OperatorCallWithin(PauseOps)
    \/ \E tid \in 1..Len(tickets) :
         /\ tickets[tid].paused
         /\ resume_ticket(tid) /\ OperatorCallWithin(PauseOps + 1)
    \/ \E w \in Workers : UnpausedWorker(w)
    \/ NoTicketPaused /\ Late
    \/ NoTicketPaused /\ Tick

SpecPauseResume == Init /\ [][NextPauseResume]_vars

(* resume_ticket on a paused ticket whose approval is pending, and what    *)
(* follows it.  One noop task.  The first two operator calls are           *)
(* pause_ticket and request_approval, in either order, the third is the    *)
(* resume_ticket; after it up to ResumeOps calls in all of reject_ticket,  *)
(* pause_ticket, resume_ticket and request_approval, and one               *)
(* approve_ticket, the last call: `ops` is ResumeOps + 1 once it was       *)
(* made.                                                                   *)
NextResumePending ==
    \/ create_ticket
    \/ CreateTaskFrom(MaxTasks, {"noop"}, {1}, {None}, {{}})
    \/ \E tid \in 1..Len(tickets) :
         /\ ops < 2 /\ ~tickets[tid].paused
         /\ pause_ticket(tid) /\ OperatorCallWithin(ResumeOps)
    \/ \E tid \in 1..Len(tickets) :
         /\ ops < 2 /\ ~ApprovalPending(tickets[tid])
         /\ request_approval(tid) /\ OperatorCallWithin(ResumeOps)
    \/ \E tid \in 1..Len(tickets) :
         /\ ops = 2
         /\ resume_ticket(tid) /\ OperatorCallWithin(ResumeOps)
    \/ \E tid \in TicketIds :
         ops >= 3 /\ reject_ticket(tid) /\ OperatorCallWithin(ResumeOps)
    \/ \E tid \in TicketIds :
         ops >= 3 /\ pause_ticket(tid) /\ OperatorCallWithin(ResumeOps)
    \/ \E tid \in TicketIds :
         ops >= 3 /\ resume_ticket(tid) /\ OperatorCallWithin(ResumeOps)
    \/ \E tid \in TicketIds :
         ops >= 3 /\ request_approval(tid) /\ OperatorCallWithin(ResumeOps)
    \/ \E tid \in TicketIds :
         /\ ops >= 3 /\ ops <= ResumeOps
         /\ approve_ticket(tid) /\ ops' = ResumeOps + 1
    \/ \E w \in Workers : Worker(w)
    \/ Late
    \/ Tick

SpecResumePending == Init /\ [][NextResumePending]_vars

(* transition_ticket on its own: one ticket without tasks at any stage    *)
(* the engine writes (a stage of the workflow, or "finished", which the    *)
(* workflow does not define), paused or not, its approval not requested,  *)
(* granted or rejected, and up to TransitionOps calls with any target and  *)
(* context.                                                                *)
TransitionTargets == {NoTarget} \cup StageIds \cup {"finished"}

InitTransition ==
    /\ \E paused \in BOOLEAN, approval_status \in ApprovalStatuses \ {"pending"},
          stage \in StageIds \cup {"finished"},
          status \in {"active", "paused", "waiting_approval", "attention", "completed"},
          completed_at \in {None, now} :
         tickets = << [NewTicket EXCEPT !.paused = paused,
                                        !.approval_required = approval_status # "none",
                                        !.approval_status = approval_status,
                                        !.stage = stage,
                                        !.status = status,
                                        !.completed_at = completed_at] >>
    /\ tasks = << >>
    /\ events = << >>
    /\ pc = [w \in Workers |-> "idle"]
    /\ wtask = [w \in Workers |-> 0]
    /\ wresult = [w \in Workers |-> NoResult]
    /\ wevent = [w \in Workers |-> 0]
    /\ wcancel = [w \in Workers |-> {}]
    /\ wcand = [w \in Workers |-> {}]
    /\ wresp = [w \in Workers |-> NoResponse]
    /\ renewer = [w \in Workers |-> "off"]
    /\ rsnap = [w \in Workers |-> NoSnap]
    /\ lingering = {}
    /\ ops = 0
    /\ schedules = << >>
    /\ wsched = [w \in Workers |-> NoBatch]
    /\ delay = NoDelay

NextTransition ==
    \/ \E tid \in TicketIds, target \in TransitionTargets, ctx_ok \in BOOLEAN :
         transition_ticket(tid, target, ctx_ok) /\ OperatorCallWithin(TransitionOps)
    \/ \E tid \in TicketIds, target \in TransitionTargets, ctx_ok \in BOOLEAN :
         transition_ticket_raises(tid, target, ctx_ok) /\ OperatorCallWithin(TransitionOps)

SpecTransition == InitTransition /\ [][NextTransition]_vars

(* Up to OrderTasks tasks of one ticket, served by the noop executor or by *)
(* one that always fails, with two attempts, depending on nothing or on    *)
(* the second task, and up to OrderOps pauses and resumes of the ticket.   *)
(* Every execution ends before the renewer's first iteration.              *)
WorkerOrder(w) ==
    \/ Reap(w)
    \/ ClaimSelect(w)
    \/ ClaimCommit(w)
    \/ Gate(w)
    \/ Execute(w)
    \/ Finalize(w)

NextOrder ==
    \/ create_ticket
    \/ CreateTaskFrom(OrderTasks, {"noop", "always_fail"}, {2}, {None}, {{}, {OrderTasks}})
    \/ \E tid \in TicketIds : pause_ticket(tid) /\ OperatorCallWithin(OrderOps)
    \/ \E tid \in TicketIds : resume_ticket(tid) /\ OperatorCallWithin(OrderOps)
    \/ \E w \in Workers : WorkerOrder(w)
    \/ Tick

SpecOrder == Init /\ [][NextOrder]_vars

(* One task whose executor fails every execution, and up to BackoffOps    *)
(* calls of pause_ticket, resume_ticket, request_approval and              *)
(* approve_ticket, all within one instant: the clock does not advance, so  *)
(* no retry backoff elapses, no lease expires and no renewer iteration     *)
(* (one every third of the lease) begins.                                  *)
NextBackoff ==
    \/ create_ticket
    \/ CreateTaskFrom(MaxTasks, {"always_fail"}, {None}, {None}, {{}})
    \/ \E tid \in TicketIds : pause_ticket(tid) /\ OperatorCallWithin(BackoffOps)
    \/ \E tid \in TicketIds : resume_ticket(tid) /\ OperatorCallWithin(BackoffOps)
    \/ \E tid \in TicketIds : request_approval(tid) /\ OperatorCallWithin(BackoffOps)
    \/ \E tid \in TicketIds : approve_ticket(tid) /\ OperatorCallWithin(BackoffOps)
    \/ \E w \in Workers : WorkerOrder(w)

SpecBackoff == Init /\ [][NextBackoff]_vars

(* compute_retry_delay_seconds on its own: the arguments are any base from *)
(* 1 to MaxDelayBase and any maximum from the base to MaxDelayMax; the     *)
(* function is called for attempt count 0, and called again for each next  *)
(* attempt up to MaxDelayAttempts.                                         *)
InitDelay ==
    /\ InitEngine
    /\ \E b \in 1..MaxDelayBase, m \in 1..MaxDelayMax :
         /\ m >= b
         /\ delay = [attempt_count |-> 0, retry_base_seconds |-> b,
                     retry_max_seconds |-> m, seconds |-> None]

ComputeRetryDelay ==
    /\ delay.seconds = None
    /\ delay' = [delay EXCEPT !.seconds =
          compute_retry_delay_seconds(delay.attempt_count, delay.retry_base_seconds,
                                      delay.retry_max_seconds)]
    /\ UNCHANGED <<dbvars, workervars, leasevars, ops, schedvars>>

ComputeNextRetryDelay ==
    /\ delay.seconds # None
    /\ delay.attempt_count < MaxDelayAttempts
    /\ delay' = [delay EXCEPT
          !.attempt_count = delay.attempt_count + 1,
          !.seconds = compute_retry_delay_seconds(delay.attempt_count + 1,
                                                  delay.retry_base_seconds,
                                                  delay.retry_max_seconds)]
    /\ UNCHANGED <<dbvars, workervars, leasevars, ops, schedvars>>

NextDelay ==
    \/ ComputeRetryDelay
    \/ ComputeNextRetryDelay

SpecDelay == InitDelay /\ [][NextDelay]_vars

(* The schedule engine: up to MaxSchedules schedules, one-shot or         *)
(* recurring with the clock's step as interval, first due now or one step  *)
(* ahead, with or without a task template; two workers calling             *)
(* process_due_schedules with a limit of 0, 1 or MaxSchedules; up to       *)
(* SchedOps calls of resume_schedule and trigger_schedule_once, and        *)
(* pause_schedule.  Materializations stop at SchedTickets tickets, and the *)
(* clock stands while a schedule is overdue by PastHorizon.                *)
ScheduleKeys == {"s1", "s2"}
ScheduleLimits == {0, 1, MaxSchedules}
BatchInputs == UNION {[1..n -> 1..MaxSchedules] : n \in 1..MaxSchedules}

ScheduleTick ==
    /\ \A i \in 1..Len(schedules) :
         schedules[i].next_run_at = None \/ schedules[i].next_run_at > 0 - PastHorizon
    /\ Tick

NextSchedule ==
    \/ /\ Len(schedules) < MaxSchedules
       /\ \E key \in ScheduleKeys, first_run_at \in {None, TickSeconds},
             interval_seconds \in {None, 0, TickSeconds}, task_key \in {NoTaskKey, "noop"} :
            create_schedule(key, first_run_at, interval_seconds, task_key)
    \/ \E id \in 1..Len(schedules) : schedules[id].active /\ pause_schedule(id)
    \/ \E id \in 1..Len(schedules) : resume_schedule(id) /\ OperatorCallWithin(SchedOps)
    \/ \E id \in 1..Len(schedules) :
         /\ Len(tickets) < SchedTickets
         /\ trigger_schedule_once(id) /\ OperatorCallWithin(SchedOps)
    \/ \E w \in Workers, limit \in ScheduleLimits, rows \in BatchInputs :
         ProcessDueSchedulesSelect(w, limit, rows)
    \/ \E w \in Workers :
         /\ Len(tickets) + Len(wsched[w].rows) <= SchedTickets
         /\ ProcessDueSchedulesCommit(w)
    \/ ScheduleTick

SpecSchedule == Init /\ [][NextSchedule]_vars

(* ------------------------------ properties ----------------------------- *)
TaskIds == 1..Len(tasks)
TicketOf(i) == tickets[tasks[i].ticket_id]

PredecessorsCompleted(ts, i) ==
    \A d \in ts[i].depends_on : d \in 1..Len(ts) /\ ts[d].state = "completed"

Walkable(i) == ~TicketOf(i).paused /\ ~ApprovalPending(TicketOf(i))

(* C1: a step moves a task to running only if every predecessor of the     *)
(* task exists and is completed at that moment; a claim transaction leaves *)
(* a candidate with an unsatisfied dependency as it was, and claims the    *)
(* oldest candidate whose dependencies are satisfied.                      *)
C1_ClaimRespectsDependencies ==
    [][/\ \A i \in TaskIds :
            tasks[i].state # "running" /\ tasks'[i].state = "running"
              => PredecessorsCompleted(tasks, i)
       /\ \A w \in Workers :
            pc[w] = "claiming" /\ pc'[w] # "claiming" =>
              LET ready == {i \in wcand[w] : Walkable(i) /\ PredecessorsCompleted(tasks, i)}
              IN /\ \A i \in wcand[w] :
                      Walkable(i) /\ ~PredecessorsCompleted(tasks, i)
                        => tasks'[i] = tasks[i]
                 /\ ready # {} =>
                      /\ pc'[w] = "gate"
                      /\ wtask'[w] \in ready
                      /\ \A j \in ready : wtask'[w] <= j]_vars

C1_Witness ==
    \E i, j \in TaskIds :
      /\ i < j
      /\ tasks[i].state = "queued" /\ ~PredecessorsCompleted(tasks, i)
      /\ tasks[j].state = "running" /\ tasks[j].attempt_count = 1

(* C2: a task is moved to running, or handed to another worker, only from  *)
(* queued or retrying, by a claim transaction that raises attempt_count by *)
(* exactly one and leaves it claimed by the one worker that goes on to run *)
(* it: no claim lands on a task another claim has already moved to         *)
(* running.                                                                *)
C2_ClaimedByAtMostOne ==
    [][\A i \in TaskIds :
         /\ tasks'[i].state = "running"
         /\ \/ tasks[i].state # "running"
            \/ tasks'[i].claimed_by # tasks[i].claimed_by
            \/ tasks'[i].attempt_count # tasks[i].attempt_count
         => /\ tasks[i].state \in {"queued", "retrying"}
            /\ tasks'[i].attempt_count = tasks[i].attempt_count + 1
            /\ tasks'[i].claimed_by \in Workers
            /\ \A w \in Workers :
                 (pc[w] = "claiming" /\ pc'[w] = "gate" /\ wtask'[w] = i)
                   <=> tasks'[i].claimed_by = w]_vars

C2_Witness ==
    \E w1, w2 \in Workers, i \in TaskIds :
      /\ w1 # w2
      /\ pc[w1] = "gate" /\ wtask[w1] = i
      /\ pc[w2] = "claiming" /\ wcand[w2] = {}
      /\ tasks[i].state = "running" /\ tasks[i].claimed_by = w1
      /\ tasks[i].attempt_count = 1

(* C3: an event row is handed as a success payload to at most one task:    *)
(* the tasks whose execution returned it or whose result_data holds it     *)
(* are at most one.                                                        *)
DeliveredTo(e) ==
    {i \in TaskIds : tasks[i].result_data = [kind |-> "event", id |-> e]}
    \cup {wtask[w] : w \in {v \in Workers :
                              wresult[v].output = [kind |-> "event", id |-> e]}}

C3_EventDeliveredOnce ==
    \A e \in 1..Len(events) : Cardinality(DeliveredTo(e)) <= 1

(* C4 (I6): a paused ticket has no task in queued, retrying or blocked.    *)
C4_PausedTicketHasNoRunnableTask ==
    \A i \in TaskIds :
      TicketOf(i).paused => tasks[i].state \notin {"queued", "retrying", "blocked"}

(* C5 (I5): a ticket whose approval_status is pending has no queued task.  *)
C5_PendingApprovalHasNoQueuedTask ==
    \A i \in TaskIds :
      TicketOf(i).approval_status = "pending" => tasks[i].state # "queued"

(* C6 (I1): a running task has claimed_by, claimed_at and lease_expires_at *)
(* all non-null.                                                           *)
C6_RunningTaskIsClaimed ==
    \A i \in TaskIds :
      tasks[i].state = "running" =>
        /\ tasks[i].claimed_by # NoWorker
        /\ tasks[i].claimed_at # None
        /\ tasks[i].lease_expires_at # None

C6_Witness ==
    \E i \in TaskIds, w \in Workers :
      /\ tasks[i].state = "running" /\ tasks[i].claimed_by = w
      /\ pc[w] = "exec" /\ wtask[w] = i
      /\ tasks[i].attempt_count = 2

(* C7 (I2): a queued or retrying task has claimed_by and lease_expires_at  *)
(* null.                                                                   *)
C7_WaitingTaskIsUnclaimed ==
    \A i \in TaskIds :
      tasks[i].state \in {"queued", "retrying"} =>
        tasks[i].claimed_by = NoWorker /\ tasks[i].lease_expires_at = None

(* C8 (I4): a dead_letter task has attempt_count >= max_attempts, the      *)
(* max_attempts stored on the task.                                        *)
C8_DeadLetterExhaustedAttempts ==
    \A i \in TaskIds :
      tasks[i].state = "dead_letter" => tasks[i].attempt_count >= tasks[i].max_attempts

C8_Witness ==
    \E i \in TaskIds :
      /\ tasks[i].state = "dead_letter"
      /\ tasks[i].max_attempts = 3 /\ tasks[i].attempt_count = 3

(* C9: once a task is failed or dead_letter, no step moves it to queued,   *)
(* retrying, running or completed.                                         *)
C9_TerminalFailureNeverRetries ==
    [][\A i \in TaskIds :
         tasks[i].state \in {"failed", "dead_letter"}
           => tasks'[i].state \notin {"queued", "retrying", "running", "completed"}]_vars

(* C10 (I3): a completed task has completed_at set, and once a task is     *)
(* completed its state and result_data never change.                       *)
C10_CompletedIsFinal ==
    /\ [](\A i \in TaskIds : tasks[i].state = "completed" => tasks[i].completed_at # None)
    /\ [][\A i \in TaskIds :
            tasks[i].state = "completed"
              => /\ tasks'[i].state = "completed"
                 /\ tasks'[i].result_data = tasks[i].result_data]_vars

FinalizeStep(w, i) == pc[w] = "finalize" /\ pc'[w] = "idle" /\ wtask[w] = i

ClaimStep(i) == tasks[i].state # "running" /\ tasks'[i].state = "running"

NormalizedMaxAttempts(i) ==
    IF tasks[i].max_attempts = None THEN Max(default_max_attempts, 1)
    ELSE Max(tasks[i].max_attempts, 1)

(* C11: a task whose executor fails every execution is executed exactly N  *)
(* times, N its normalized max_attempts: each claim starts the execution   *)
(* numbered attempt_count + 1 <= N, the finalize of execution k < N leaves *)
(* the task retrying with next_run_at in the future, the finalize of       *)
(* execution N leaves it dead_letter, and a dead_letter task is never      *)
(* claimed again.                                                          *)
C11_FailingTaskRunsMaxAttemptsTimes ==
    [][\A i \in TaskIds : tasks[i].task_key = "always_fail" =>
         LET N == NormalizedMaxAttempts(i)
             k == tasks[i].attempt_count
         IN /\ ClaimStep(i) => tasks'[i].attempt_count = k + 1 /\ k + 1 <= N
            /\ \A w \in Workers : FinalizeStep(w, i) =>
                 /\ tasks'[i].attempt_count = k
                 /\ k < N => /\ tasks'[i].state = "retrying"
                             /\ tasks'[i].next_run_at # None
                             /\ tasks'[i].next_run_at > now
                 /\ k >= N => k = N /\ tasks'[i].state = "dead_letter"
            /\ tasks[i].state = "dead_letter" =>
                 /\ tasks'[i].state = "dead_letter"
                 /\ tasks'[i].attempt_count = k
            /\ tasks'[i].state \in {"queued", "running", "retrying", "dead_letter"}]_vars

C11_Witness ==
    \E i \in TaskIds :
      /\ tasks[i].task_key = "always_fail"
      /\ tasks[i].state = "dead_letter"
      /\ tasks[i].max_attempts = 3 /\ tasks[i].attempt_count = 3
      /\ tasks[i].error_message = "boom"

(* C12: a deferral is free: the finalize of an execution that deferred     *)
(* puts attempt_count back to its value before the claim of that           *)
(* execution, leaves the task retrying with next_run_at = now +            *)
(* max(defer_seconds or the default poll interval, 1), and a task whose    *)
(* executor always defers is never dead-lettered, whatever its             *)
(* max_attempts.                                                           *)
C12_DeferralsAreFree ==
    /\ [][\A i \in TaskIds : tasks[i].task_key \in {"defer", "defer_any"} =>
            /\ ClaimStep(i) => tasks'[i].attempt_count = tasks[i].attempt_count + 1
            /\ \A w \in Workers : FinalizeStep(w, i) =>
                 /\ tasks'[i].attempt_count = tasks[i].attempt_count - 1
                 /\ tasks'[i].state = "retrying"
                 /\ tasks'[i].next_run_at =
                      now + (LET d == wresult[w].defer_seconds
                             IN IF d = None \/ d = 0
                                  THEN event_wait_poll_interval_seconds
                                  ELSE IF d >= 1 THEN d ELSE 1)]_vars
    /\ [](\A i \in TaskIds : tasks[i].task_key \in {"defer", "defer_any"} =>
            /\ tasks[i].state \in {"queued", "running", "retrying"}
            /\ tasks[i].state # "running" => tasks[i].attempt_count = 0)

C12_Witness ==
    \E i \in TaskIds :
      /\ tasks[i].task_key = "defer_any"
      /\ tasks[i].state = "retrying" /\ tasks[i].error_message = "deferred"
      /\ tasks[i].max_attempts = 1 /\ tasks[i].attempt_count = 0
      /\ tasks[i].next_run_at = event_wait_poll_interval_seconds

LockedByOther(w, i) ==
    \E v \in Workers \ {w} : i \in wcancel[v] \cup wcand[v]

(* C14: a task with cancel_requested in queued, retrying, paused or        *)
(* blocked whose row no other worker has locked is selected by the claim   *)
(* transaction of the next process_once and left cancelled by its commit;  *)
(* a process_once that claims nothing returns "cancelled N task(s)", N the *)
(* number of tasks it cancelled; and no executor is invoked for a task     *)
(* whose cancel_requested is set: the request is never withdrawn, no claim *)
(* takes such a task and the pre-execution gate stops it.                  *)
C14_PendingCancelIsFinalizedBeforeClaim ==
    [][/\ \A w \in Workers :
            /\ pc[w] = "claim" /\ pc'[w] = "claiming" =>
                 \A i \in TaskIds :
                   /\ tasks[i].cancel_requested
                   /\ tasks[i].state \in {"queued", "retrying", "paused", "blocked"}
                   /\ ~LockedByOther(w, i)
                   => i \in wcancel'[w]
            /\ pc[w] = "claiming" /\ pc'[w] # "claiming" =>
                 /\ \A i \in wcancel[w] : tasks'[i].state = "cancelled"
                 /\ pc'[w] = "idle" /\ wcancel[w] # {} =>
                      /\ wresp'[w].processed
                      /\ wresp'[w].message = "cancelled task(s)"
                      /\ wresp'[w].n = Cardinality(wcancel[w])
            /\ pc[w] = "gate" /\ pc'[w] = "exec" => ~tasks[wtask[w]].cancel_requested
       /\ \A i \in TaskIds :
            tasks[i].cancel_requested => tasks'[i].cancel_requested /\ ~ClaimStep(i)]_vars

C14_Witness ==
    \E w \in Workers :
      /\ pc[w] = "idle"
      /\ wresp[w] = Response(TRUE, 0, "cancelled task(s)", 2)
      /\ \A i \in TaskIds : tasks[i].state = "cancelled" /\ tasks[i].attempt_count = 0

PolicyResult(tid) == resolve(tickets[tid], StatesOf(tasks, tid, 1), now)

(* C15: once the process_once whose reaper moved a task has returned, the  *)
(* ticket's (stage, status) is the state policy's result.  A task the      *)
(* reaper moved last carries the reaper's message; the reaping call is     *)
(* over when no worker is in its claim transaction; and with no operator   *)
(* call only create_task and the worker's sync write the ticket.           *)
C15_TicketSyncedAfterReaperMove ==
    \A i \in TaskIds :
      /\ tasks[i].state \in {"retrying", "dead_letter"}
      /\ tasks[i].error_message = "task lease expired while running"
      /\ \A w \in Workers : pc[w] \notin {"claim", "claiming"}
      /\ ops = 0
      => /\ TicketOf(i).stage = PolicyResult(tasks[i].ticket_id).stage
         /\ TicketOf(i).status = PolicyResult(tasks[i].ticket_id).status

TimeoutElapsed(i) ==
    /\ tasks[i].timeout_seconds # None
    /\ tasks[i].started_at # None
    /\ now - tasks[i].started_at >= Max(tasks[i].timeout_seconds, 1)

HeldByCrashed(i) ==
    /\ i \in TaskIds
    /\ tasks[i].state = "running"
    /\ tasks[i].claimed_by = CrashedWorker
    /\ pc[CrashedWorker] = "crashed"

(* C16: the reaper of a process_once moves every running task whose lease  *)
(* has expired, whose timeout has not elapsed and whose row it can lock    *)
(* out of running: to cancelled if cancel_requested, else with             *)
(* attempt_count raised by one to retrying if the raised count is below    *)
(* max_attempts and to dead_letter otherwise.  With a worker that keeps    *)
(* calling process_once, a task held by a crashed worker does not stay     *)
(* running.                                                                *)
C16_CrashRecovery ==
    /\ [][\A w \in Workers : pc[w] = "idle" /\ pc'[w] = "claim" =>
            \A i \in TaskIds :
              /\ tasks[i].state = "running"
              /\ tasks[i].lease_expires_at # None
              /\ tasks[i].lease_expires_at <= now
              /\ ~TimeoutElapsed(i)
              /\ RowFree(i)
              => IF tasks[i].cancel_requested
                   THEN tasks'[i].state = "cancelled"
                   ELSE /\ tasks'[i].attempt_count = tasks[i].attempt_count + 1
                        /\ tasks'[i].state =
                             IF tasks'[i].attempt_count < NormalizedMaxAttempts(i)
                               THEN "retrying" ELSE "dead_letter"]_vars
    /\ \A i \in 1..MaxTasks : HeldByCrashed(i) ~> ~HeldByCrashed(i)

C16_Witness ==
    \E i \in TaskIds :
      /\ pc[CrashedWorker] = "crashed"
      /\ tasks[i].state = "retrying"
      /\ tasks[i].error_message = "task lease expired while running"
      /\ tasks[i].attempt_count = 2 /\ tasks[i].max_attempts = 3

Matches(e, i) ==
    /\ events[e].ticket_id = tasks[i].ticket_id
    /\ events[e].event_type = tasks[i].payload.event_type

Unconsumed(e) == events[e].consumed_at = None

(* The event the execution of worker w is handed by the step, 0 if none. *)
Received(w) ==
    IF pc'[w] = "consume" THEN wevent'[w]
    ELSE IF wresult'[w].success /\ wresult'[w].output.kind = "event"
      THEN wresult'[w].output.id
    ELSE 0

(* C17: the SELECT of a wait_for_event execution hands it the oldest       *)
(* unconsumed event of the task's ticket and event type, and defers only   *)
(* when there is none; an event is consumed only after every older event   *)
(* of its ticket and type; and the event a task completed with is of the   *)
(* task's ticket and type.                                                 *)
C17_EventsDeliveredFifo ==
    /\ [][\A w \in Workers :
            pc[w] = "exec" /\ pc'[w] # "exec" =>
              LET i == wtask[w]
                  e == Received(w)
                  pending == {x \in 1..Len(events) : Matches(x, i) /\ Unconsumed(x)}
              IN IF pending = {} THEN e = 0 /\ wresult'[w].defer
                 ELSE e \in pending /\ \A x \in pending : e <= x]_vars
    /\ [](\A e1, e2 \in 1..Len(events) :
            /\ e1 < e2
            /\ events[e1].ticket_id = events[e2].ticket_id
            /\ events[e1].event_type = events[e2].event_type
            /\ ~Unconsumed(e2)
            => ~Unconsumed(e1))
    /\ [](\A i \in TaskIds :
            tasks[i].state = "completed" /\ tasks[i].result_data.kind = "event"
              => Matches(tasks[i].result_data.id, i))

C17_Witness ==
    /\ Len(events) = 2 /\ Len(tasks) = 2
    /\ events[1].event_type = "go" /\ events[2].event_type = "go"
    /\ events[1].ticket_id = 1 /\ events[2].ticket_id = 1
    /\ \E i, j \in TaskIds :
         /\ i # j
         /\ tasks[i].state = "completed" /\ tasks[i].result_data.id = 1
         /\ tasks[j].state = "completed" /\ tasks[j].result_data.id = 2

AllCompleted == \A i \in TaskIds : tasks[i].state = "completed"

(* C18: on the happy path every task is eventually completed, a task only  *)
(* when its predecessors are, and the ticket eventually is at stage        *)
(* finished with status completed, all its tasks completed.                *)
C18_HappyPathCompletes ==
    /\ \A i \in 1..HappyTasks :
         (i \in TaskIds) ~> (i \in TaskIds /\ tasks[i].state = "completed")
    /\ (tasks # << >>) ~>
         (/\ tasks # << >> /\ AllCompleted
          /\ tickets[1].stage = "finished" /\ tickets[1].status = "completed")
    /\ [](\A i \in TaskIds : tasks[i].state = "completed"
            => \A d \in tasks[i].depends_on : tasks[d].state = "completed")

C18_Witness ==
    /\ Len(tasks) = HappyTasks /\ AllCompleted
    /\ tasks[2].depends_on = {1}
    /\ tasks[1].attempt_count = 1 /\ tasks[2].attempt_count = 1
    /\ tickets[1].stage = "finished" /\ tickets[1].status = "completed"

Outcome(stage, status, completed_at) ==
    [stage |-> stage, status |-> status, completed_at |-> completed_at]

(* C19: resolve is the decision table: paused keeps the stage with status  *)
(* paused; else pending approval gives (pending_approval,                  *)
(* waiting_approval); else rejected approval gives (review, attention);    *)
(* else no tasks gives (queued, active); else any failed or dead_letter    *)
(* task gives (review, attention); else all tasks completed gives          *)
(* (finished, completed, now); else (running, active).                     *)
C19_PolicyIsDecisionTable ==
    \A tid \in 1..Len(tickets) :
      LET tk == tickets[tid]
          mine == {i \in TaskIds : tasks[i].ticket_id = tid}
          states == {tasks[i].state : i \in mine}
          r == resolve(tk, StatesOf(tasks, tid, 1), now)
          gated == tk.approval_required /\ tk.approval_status \in {"pending", "rejected"}
      IN /\ tk.paused => r = Outcome(tk.stage, "paused", tk.completed_at)
         /\ ~tk.paused /\ tk.approval_required /\ tk.approval_status = "pending"
              => r = Outcome("pending_approval", "waiting_approval", None)
         /\ ~tk.paused /\ tk.approval_required /\ tk.approval_status = "rejected"
              => r = Outcome("review", "attention", None)
         /\ ~tk.paused /\ ~gated =>
              /\ mine = {} => r = Outcome("queued", "active", None)
              /\ states \cap {"failed", "dead_letter"} # {}
                   => r = Outcome("review", "attention", None)
              /\ states = {"completed"} => r = Outcome("finished", "completed", now)
              /\ mine # {} /\ states \cap {"failed", "dead_letter"} = {}
                 /\ states # {"completed"}
                   => r = Outcome("running", "active", None)

C19_Witness ==
    /\ Len(tasks) = 2
    /\ tasks[1].state = "completed" /\ tasks[2].state = "dead_letter"
    /\ ~tickets[1].paused /\ tickets[1].approval_status = "approved"
    /\ tickets[1].stage = "review" /\ tickets[1].status = "attention"

PauseStep(tid) == ~tickets[tid].paused /\ tickets'[tid].paused
ResumeStep(tid) == tickets[tid].paused /\ ~tickets'[tid].paused

(* C20, the tasks: pause_ticket parks every queued, retrying or blocked    *)
(* task and leaves the finished ones alone; the resume_ticket that follows *)
(* at once, approval not pending, makes every parked task queued with      *)
(* next_run_at = now and leaves the finished ones alone.                   *)
PauseResumeRestoresTasks ==
    [][\A i \in TaskIds :
         LET tid == tasks[i].ticket_id
             done == tasks[i].state \in {"completed", "failed", "dead_letter", "cancelled"}
         IN /\ PauseStep(tid) =>
                 /\ tasks[i].state \in {"queued", "retrying", "blocked"}
                      => tasks'[i].state = "paused"
                 /\ done => tasks'[i] = tasks[i]
            /\ ResumeStep(tid) =>
                 /\ tasks[i].state = "paused"
                      => tasks'[i].state = "queued" /\ tasks'[i].next_run_at = now
                 /\ done => tasks'[i] = tasks[i]]_vars

(* C20: pause_ticket followed at once by resume_ticket on a ticket whose   *)
(* approval is not pending leaves the ticket with paused = false and       *)
(* status active, every task that was queued, retrying or blocked queued   *)
(* with next_run_at = now, and the completed, failed, dead_letter and      *)
(* cancelled tasks unchanged.                                              *)
C20_PauseResumeRoundTrip ==
    /\ PauseResumeRestoresTasks
    /\ [][\A tid \in 1..Len(tickets) :
            ResumeStep(tid) => ~tickets'[tid].paused /\ tickets'[tid].status = "active"]_vars

(* The resume_ticket step on a ticket whose approval is pending: stage     *)
(* pending_approval, status waiting_approval, every paused task blocked    *)
(* with next_run_at cleared, every other task as it was.                   *)
ResumeOnPending ==
    [][\A tid \in 1..Len(tickets) :
         ResumeStep(tid) /\ ApprovalPending(tickets[tid]) =>
           /\ tickets'[tid].stage = "pending_approval"
           /\ tickets'[tid].status = "waiting_approval"
           /\ ApprovalPending(tickets'[tid])
           /\ \A i \in TaskIds : tasks[i].ticket_id = tid =>
                IF tasks[i].state = "paused"
                  THEN tasks'[i].state = "blocked" /\ tasks'[i].next_run_at = None
                  ELSE tasks'[i] = tasks[i]]_vars

ApproveStep(tid) ==
    tickets[tid].approval_status # "approved" /\ tickets'[tid].approval_status = "approved"

(* C22: approve_ticket sets approval_status approved; on an unpaused       *)
(* ticket it sets status active, moves stage pending_approval to running   *)
(* (any other stage stays) and makes every blocked task queued with        *)
(* next_run_at = now, the other tasks unchanged; on a paused ticket it     *)
(* sets status paused and changes no task.                                 *)
C22_ApproveReleasesBlockedTasks ==
    [][\A tid \in 1..Len(tickets) : ApproveStep(tid) =>
         /\ tickets'[tid].approval_required
         /\ tickets'[tid].paused = tickets[tid].paused
         /\ IF tickets[tid].paused
              THEN /\ tickets'[tid].status = "paused"
                   /\ tasks' = tasks
              ELSE /\ tickets'[tid].status = "active"
                   /\ tickets'[tid].stage =
                        IF tickets[tid].stage = "pending_approval"
                          THEN "running" ELSE tickets[tid].stage
                   /\ \A i \in TaskIds : tasks[i].ticket_id = tid =>
                        IF tasks[i].state = "blocked"
                          THEN tasks'[i] = [tasks[i] EXCEPT !.state = "queued",
                                                            !.next_run_at = now]
                          ELSE tasks'[i] = tasks[i]]_vars

C22_Witness ==
    /\ ops = ResumeOps + 1
    /\ tickets[1].approval_status = "approved" /\ ~tickets[1].paused
    /\ tickets[1].stage = "running" /\ tickets[1].status = "active"
    /\ Len(tasks) = 1 /\ tasks[1].state = "queued" /\ tasks[1].next_run_at = now
    /\ tasks[1].attempt_count = 0

(* The transition at index k of the stage's list qualifies for a call.     *)
Qualifies(trs, k, target_stage, ctx_ok) ==
    /\ target_stage # NoTarget => trs[k].target = target_stage
    /\ \/ trs[k].when = "always"
       \/ trs[k].when = "context.ok" /\ ctx_ok

Transitions(tid) ==
    IF tickets[tid].stage \in StageIds THEN WorkflowStages[tickets[tid].stage] ELSE << >>

(* C23: a transition_ticket call that succeeds moves the ticket to the     *)
(* target of the first transition, in declaration order of the current     *)
(* stage, whose target is target_stage (when one is supplied) and whose    *)
(* guard is true; a call raises exactly when the current stage is not in   *)
(* the workflow or no transition qualifies, and then leaves the ticket as  *)
(* it was.                                                                 *)
C23_TransitionPicksFirstQualifying ==
    [][\A tid \in 1..Len(tickets), target \in TransitionTargets, ctx_ok \in BOOLEAN :
         LET trs == Transitions(tid)
             qualifying == {k \in 1..Len(trs) : Qualifies(trs, k, target, ctx_ok)}
         IN /\ transition_ticket(tid, target, ctx_ok) /\ ops' = ops + 1 =>
                 /\ qualifying # {}
                 /\ \E k \in qualifying :
                      /\ \A j \in qualifying : k <= j
                      /\ tickets'[tid].stage = trs[k].target
            /\ transition_ticket_raises(tid, target, ctx_ok) /\ ops' = ops + 1 =>
                 /\ qualifying = {}
                 /\ tickets'[tid] = tickets[tid]]_vars

(* A ticket moved to pending_approval by one call, its approval pending    *)
(* since, and left there by a second call, which raised: the workflow has  *)
(* no transition from pending_approval to itself.                          *)
C23_Witness ==
    /\ ops = 2
    /\ tickets[1].stage = "pending_approval" /\ tickets[1].status = "waiting_approval"
    /\ tickets[1].approval_status = "pending" /\ tickets[1].completed_at = now

(* The schedules a step materializes, in order: the one of a              *)
(* trigger_schedule_once, or the batch the committing                      *)
(* process_due_schedules holds.                                            *)
Materializes(rows) ==
    \/ /\ Len(rows) = 1
       /\ trigger_schedule_once(rows[1])
    \/ \E w \in Workers : rows = wsched[w].rows /\ ProcessDueSchedulesCommit(w)

HasTaskKey(sc) == sc.task_key # NoTaskKey

(* C24: each materialization of a schedule, by process_due_schedules or    *)
(* trigger_schedule_once, creates exactly one new ticket, and exactly one  *)
(* task on it iff the schedule has a task_key, and sets last_run_at = now; *)
(* a schedule with interval_seconds > 0 ends with next_run_at = now +      *)
(* interval_seconds and active, any other with next_run_at null and        *)
(* inactive, which process_due_schedules does not select.                  *)
C24_MaterializationCreatesOneTicketAndReschedules ==
    [][\A rows \in BatchInputs :
        Materializes(rows) =>
          /\ Len(tickets') = Len(tickets) + Len(rows)
          /\ Len(tasks') = Len(tasks)
                + Cardinality({k \in 1..Len(rows) : HasTaskKey(schedules[rows[k]])})
          /\ \A k \in 1..Len(rows) :
               LET sc == schedules[rows[k]]
                   after == schedules'[rows[k]]
                   tid == Len(tickets) + k
                   made == {i \in 1..Len(tasks') : i > Len(tasks) /\ tasks'[i].ticket_id = tid}
               IN /\ tickets'[tid].title = sc.ticket_title
                  /\ Cardinality(made) = IF HasTaskKey(sc) THEN 1 ELSE 0
                  /\ \A i \in made : tasks'[i].task_key = sc.task_key
                  /\ after.last_run_at = now
                  /\ IF sc.interval_seconds > 0
                       THEN /\ after.next_run_at = now + sc.interval_seconds
                            /\ after.active
                       ELSE /\ after.next_run_at = None
                            /\ ~after.active
                            /\ ~ScheduleDue(after)
          /\ \A i \in 1..Len(schedules) :
               i \notin Range(rows) => schedules'[i] = schedules[i]
      ]_vars

(* A one-shot schedule with a task template and a recurring schedule have  *)
(* both been materialized: each has its ticket, the one-shot one is off.   *)
C24_Witness ==
    \E a, b \in 1..Len(schedules) :
      /\ schedules[a].interval_seconds = None
      /\ HasTaskKey(schedules[a])
      /\ schedules[a].last_run_at # None
      /\ ~schedules[a].active /\ schedules[a].next_run_at = None
      /\ \E i \in 1..Len(tasks) :
           tickets[tasks[i].ticket_id].title = schedules[a].ticket_title
      /\ schedules[b].interval_seconds = TickSeconds
      /\ schedules[b].last_run_at # None
      /\ schedules[b].active /\ schedules[b].next_run_at # None
      /\ \E t \in 1..Len(tickets) : tickets[t].title = schedules[b].ticket_title

(* The tickets made from schedule id: a schedule of this model puts its    *)
(* own key in the title of its ticket template.                            *)
TicketsOfSchedule(tks, id) ==
    Cardinality({t \in 1..Len(tks) : tks[t].title = schedules[id].schedule_key})

OneShot(sc) == ~(sc.interval_seconds > 0)

(* C30: with several workers calling process_due_schedules concurrently,   *)
(* a call takes at most max(1, limit) schedules, all due, none held by     *)
(* another call, earliest next_run_at first; the commit of a call makes    *)
(* exactly one ticket for each schedule it took and moves the schedule's   *)
(* next_run_at past the occurrence it fired; and as long as nobody called  *)
(* resume_schedule or trigger_schedule_once, a one-shot schedule has one   *)
(* ticket if it has fired and none otherwise.                              *)
C30_DueOccurrenceMaterializedOnce ==
    [][/\ \A w \in Workers :
            wsched[w] = NoBatch /\ wsched'[w] # NoBatch =>
              LET rows == wsched'[w].rows
                  free == {i \in 1..Len(schedules) :
                             /\ ScheduleDue(schedules[i])
                             /\ \A w2 \in Workers : i \notin Range(wsched[w2].rows)}
              IN /\ Len(rows) >= 1
                 /\ Len(rows) <= Max(1, wsched'[w].limit)
                 /\ Range(rows) \subseteq free
                 /\ \A j, k \in 1..Len(rows) :
                      j < k => /\ rows[j] # rows[k]
                               /\ schedules[rows[j]].next_run_at
                                    <= schedules[rows[k]].next_run_at
                 /\ \A i \in free \ Range(rows), k \in 1..Len(rows) :
                      schedules[rows[k]].next_run_at <= schedules[i].next_run_at
       /\ \A w \in Workers :
            wsched[w] # NoBatch /\ wsched'[w] = NoBatch =>
              \A i \in 1..Len(schedules) :
                IF i \in Range(wsched[w].rows)
                  THEN /\ TicketsOfSchedule(tickets', i) = TicketsOfSchedule(tickets, i) + 1
                       /\ \/ schedules'[i].next_run_at = None
                          \/ /\ schedules'[i].next_run_at > now
                             /\ schedules'[i].next_run_at > schedules[i].next_run_at
                  ELSE TicketsOfSchedule(tickets', i) = TicketsOfSchedule(tickets, i)
       /\ ops' = 0 =>
            \A i \in 1..Len(schedules') :
              OneShot(schedules'[i]) =>
                Cardinality({t \in 1..Len(tickets') :
                               tickets'[t].title = schedules'[i].schedule_key})
                  = IF schedules'[i].last_run_at # None THEN 1 ELSE 0
      ]_vars

(* Two calls of process_due_schedules are open at once: one took the       *)
(* earliest due schedule, and the other, called with room for both, took   *)
(* only the schedule the first had left; a ticket of an earlier occurrence *)
(* exists, and nobody has called resume_schedule or trigger_schedule_once. *)
C30_Witness ==
    /\ ops = 0
    /\ Len(tickets) >= 1
    /\ \E w, w2 \in Workers, a, b \in 1..Len(schedules) :
         /\ w # w2 /\ a # b
         /\ wsched[w].rows = <<a>>
         /\ wsched[w2].limit = MaxSchedules /\ wsched[w2].rows = <<b>>
         /\ ScheduleDue(schedules[a]) /\ ScheduleDue(schedules[b])
         /\ schedules[a].next_run_at <= schedules[b].next_run_at

(* The claim transaction of worker w commits; the task it claimed, or 0 *)
ClaimCommits(w) == pc[w] = "claiming" /\ pc'[w] # "claiming"
ClaimedBy(w) == IF pc'[w] = "gate" THEN wtask'[w] ELSE 0

Selectable(i, w) ==
    /\ tasks[i].state \in {"queued", "retrying"}
    /\ tasks[i].next_run_at = None \/ tasks[i].next_run_at <= now
    /\ ~tasks[i].cancel_requested
    /\ ~LockedByOther(w, i)

PassesWalk(i) ==
    /\ tasks[i].ticket_id \in 1..Len(tickets)
    /\ ~tickets[tasks[i].ticket_id].paused
    /\ ~(tickets[tasks[i].ticket_id].approval_required
         /\ tickets[tasks[i].ticket_id].approval_status = "pending")
    /\ \A d \in tasks[i].depends_on : d \in 1..Len(tasks) /\ tasks[d].state = "completed"

Oldest(rows, i) == i \in rows /\ \A j \in rows : i <= j

(* C25: claim order is FIFO by creation (ids are handed out in creation    *)
(* order).  The SELECT of a claim transaction takes every task that is     *)
(* queued or retrying with next_run_at null or past, not cancel_requested  *)
(* and not locked by another worker; the task the process_once claims is   *)
(* the oldest of these whose ticket exists, is neither paused nor          *)
(* approval-pending, and whose dependencies are all completed, as the      *)
(* transaction reads them; one is claimed whenever there is such a task:   *)
(* an older ineligible task does not block a younger eligible one.         *)
C25_ClaimsOldestEligible ==
    [][\A w \in Workers :
        /\ pc[w] = "claim" /\ pc'[w] = "claiming" =>
             wcand'[w] = {i \in 1..Len(tasks) : Selectable(i, w)}
        /\ ClaimCommits(w) =>
             LET eligible == {i \in wcand[w] : PassesWalk(i)}
             IN IF eligible = {} THEN ClaimedBy(w) = 0 ELSE Oldest(eligible, ClaimedBy(w))
      ]_vars

(* The second task is running, claimed while the first, older one, was a   *)
(* candidate too and still waits for it.                                   *)
C25_Witness ==
    /\ Len(tasks) = 2
    /\ tasks[1].state = "queued" /\ tasks[1].depends_on = {2}
    /\ tasks[1].attempt_count = 0
    /\ tasks[2].state = "running" /\ tasks[2].attempt_count = 1

(* The pre-execution gates of worker w's process_once run on task i *)
GateStep(w, i) == pc[w] = "gate" /\ pc'[w] # "gate" /\ wtask[w] = i

Unregistered(i) == tasks[i].task_key \notin RegisteredKeys

FailedAsUnknown(t) ==
    /\ t.state = "failed"
    /\ t.error_message = "unknown task_key"
    /\ "error" \in t.logs
    /\ t.claimed_by = NoWorker /\ t.lease_expires_at = None /\ t.next_run_at = None

RECURSIVE TwoToThe(_)
TwoToThe(k) == IF k = 0 THEN 1 ELSE 2 * TwoToThe(k - 1)

(* C27: for n >= 0, b >= 1 and m >= b, compute_retry_delay_seconds(n, b,   *)
(* m) lies in [b, m], equals min(m, b * 2^max(0, n - 1)), and does not     *)
(* decrease when n grows.                                                  *)
C27_RetryDelayBoundedExactMonotone ==
    [][/\ delay'.seconds # None =>
            LET n == delay'.attempt_count
                b == delay'.retry_base_seconds
                m == delay'.retry_max_seconds
                k == IF n - 1 > 0 THEN n - 1 ELSE 0
                doubled == b * TwoToThe(k)
            IN /\ delay'.seconds >= b
               /\ delay'.seconds <= m
               /\ delay'.seconds = IF m <= doubled THEN m ELSE doubled
       /\ delay.seconds # None /\ delay'.attempt_count > delay.attempt_count =>
            delay'.seconds >= delay.seconds
      ]_vars

(* The delay of the fourth attempt with base 2 and maximum 9 has been      *)
(* computed after that of the third: it is capped at 9.                    *)
C27_Witness ==
    /\ delay.attempt_count = 4
    /\ delay.retry_base_seconds = 2
    /\ delay.retry_max_seconds = 9
    /\ delay.seconds = 9

ReapStep(w) == pc[w] = "idle" /\ pc'[w] = "claim"

TimedOut(t) ==
    /\ t.state = "running"
    /\ t.timeout_seconds # None
    /\ t.started_at # None
    /\ now - t.started_at >= (IF t.timeout_seconds >= 1 THEN t.timeout_seconds ELSE 1)

(* C29: the reaper of any worker's process_once that locks the row of a    *)
(* running task whose timeout_seconds have elapsed since started_at adds   *)
(* one to attempt_count and moves the task to retrying with next_run_at    *)
(* now plus the backoff delay if attempts remain, else to dead_letter,     *)
(* with the timeout message, whether the lease has expired or not and      *)
(* whether or not cancellation was requested.                              *)
C29_ReaperEnforcesTimeout ==
    [][\A w \in Workers, i \in 1..Len(tasks) :
        ReapStep(w) /\ TimedOut(tasks[i]) /\ ~LockedByOther(w, i) =>
          LET t == tasks[i]
              n == t.attempt_count + 1
          IN /\ tasks'[i].attempt_count = n
             /\ tasks'[i].error_message = "task timed out"
             /\ tasks'[i].claimed_by = NoWorker
             /\ tasks'[i].lease_expires_at = None
             /\ IF n < t.max_attempts
                  THEN /\ tasks'[i].state = "retrying"
                       /\ tasks'[i].next_run_at
                            = now + compute_retry_delay_seconds(n, RetryBase(t), RetryMax(t))
                       /\ tasks'[i].next_run_at > now
                  ELSE /\ tasks'[i].state = "dead_letter"
                       /\ tasks'[i].next_run_at = None
      ]_vars

(* A task with a timeout was reaped for it on its first attempt, while the *)
(* worker that claimed it is still executing it: it waits for its retry    *)
(* with two attempts counted.                                              *)
C29_Witness ==
    \E w \in Workers, i \in 1..Len(tasks) :
      /\ pc[w] \in {"exec", "finalize"} /\ wtask[w] = i
      /\ tasks[i].timeout_seconds # None
      /\ tasks[i].state = "retrying"
      /\ tasks[i].error_message = "task timed out"
      /\ tasks[i].attempt_count = 2
      /\ tasks[i].next_run_at # None

Parked(t, state) ==
    /\ t.state = state
    /\ t.claimed_by = NoWorker /\ t.claimed_at = None
    /\ t.lease_expires_at = None /\ t.next_run_at = None

(* C28: a process_once whose pre-execution reload finds the ticket paused, *)
(* its approval pending or the task's cancel_requested set returns without *)
(* invoking the executor, the task parked as paused, parked as blocked or  *)
(* marked cancelled, in this order of precedence; and a candidate whose    *)
(* ticket the claim walk finds paused or approval-pending is parked as     *)
(* paused or blocked and not claimed.  Parking clears next_run_at and the  *)
(* claim fields.                                                           *)
C28_NoExecutionWhenGated ==
    [][/\ \A w \in Workers, i \in 1..Len(tasks) :
            GateStep(w, i) =>
              LET tk == tickets[tasks[i].ticket_id]
              IN IF tk.paused
                   THEN pc'[w] = "idle" /\ Parked(tasks'[i], "paused")
                 ELSE IF ApprovalPending(tk)
                   THEN pc'[w] = "idle" /\ Parked(tasks'[i], "blocked")
                 ELSE IF tasks[i].cancel_requested
                   THEN /\ pc'[w] = "idle"
                        /\ tasks'[i].state = "cancelled"
                        /\ tasks'[i].claimed_by = NoWorker
                 ELSE TRUE
       /\ \A w \in Workers, i \in 1..Len(tasks) :
            /\ ClaimCommits(w)
            /\ i \in wcand[w]
            /\ ClaimedBy(w) = 0 \/ i < ClaimedBy(w)
            => LET tk == tickets[tasks[i].ticket_id]
               IN IF tk.paused THEN Parked(tasks'[i], "paused")
                  ELSE IF ApprovalPending(tk) THEN Parked(tasks'[i], "blocked")
                  ELSE TRUE
       /\ \A w \in Workers :
            ClaimCommits(w) /\ ClaimedBy(w) # 0 =>
              /\ ~tickets[tasks[ClaimedBy(w)].ticket_id].paused
              /\ ~ApprovalPending(tickets[tasks[ClaimedBy(w)].ticket_id])
              /\ ~tasks[ClaimedBy(w)].cancel_requested
      ]_vars

(* The gates found cancel_requested on the task the worker had claimed:    *)
(* the call returned with the task cancelled after one attempt counted,    *)
(* its ticket neither paused nor awaiting approval.                        *)
C28_Witness ==
    \E w \in Workers, i \in 1..Len(tasks) :
      /\ pc[w] = "idle"
      /\ wresp[w].task_id = i /\ wresp[w].message = "cancelled before execution"
      /\ tasks[i].state = "cancelled" /\ tasks[i].attempt_count = 1
      /\ ~tickets[tasks[i].ticket_id].paused

RenewerCommit(i) ==
    \/ \E w \in Workers :
         /\ renewer[w] = "read" /\ rsnap[w].task = i
         /\ renewer'[w] = "wait"
         /\ tasks[i].state # "running" \/ tasks[i].claimed_by # w
    \/ \E snap \in lingering :
         /\ snap.task = i /\ lingering' = lingering \ {snap}
         /\ tasks[i].state # "running"

(* C31: a lease-renewer iteration changes lease_expires_at or              *)
(* cancel_requested of a task only if, when its write takes effect, the    *)
(* task is running and claimed by the renewer's worker; it never writes to *)
(* a task already finalized, reaped or claimed by another worker.          *)
C31_RenewerWritesOnlyItsRunningTask ==
    [][\A i \in 1..Len(tasks) :
         RenewerCommit(i) =>
           /\ tasks'[i].lease_expires_at = tasks[i].lease_expires_at
           /\ tasks'[i].cancel_requested = tasks[i].cancel_requested]_vars

WorkerStep == (\E w \in Workers : Worker(w)) \/ Late

SameButPolicyFields(tk, old) ==
    tk = [old EXCEPT !.stage = tk.stage, !.status = tk.status,
                     !.completed_at = tk.completed_at]

(* C32: no step of process_once and no lease-renewer iteration changes a   *)
(* ticket's paused, approval_required or approval_status; the ticket       *)
(* fields a worker step writes are stage, status and completed_at only,    *)
(* and it neither adds nor removes a ticket.                               *)
C32_WorkerLeavesPauseAndApprovalAlone ==
    [][WorkerStep =>
         /\ Len(tickets') = Len(tickets)
         /\ \A tid \in 1..Len(tickets) :
              /\ tickets'[tid].paused = tickets[tid].paused
              /\ tickets'[tid].approval_required = tickets[tid].approval_required
              /\ tickets'[tid].approval_status = tickets[tid].approval_status
              /\ SameButPolicyFields(tickets'[tid], tickets[tid])]_vars

(* The pre-execution gates parked a task of a paused ticket and synced the *)
(* ticket, which is still paused.                                          *)
C32_Witness ==
    \E w \in Workers :
      /\ wresp[w].message = "ticket paused before execution"
      /\ wresp[w].task_id # 0
      /\ tickets[tasks[wresp[w].task_id].ticket_id].paused
      /\ tickets[tasks[wresp[w].task_id].ticket_id].status = "paused"
      /\ tasks[wresp[w].task_id].state = "paused"

Executing(w, i) == pc[w] \in {"exec", "consume"} /\ wtask[w] = i

(* C33: at no time are two executor invocations for the same task in       *)
(* progress: while one worker is executing a task, no other worker is      *)
(* executing it.                                                           *)
C33_OneExecutionPerTask ==
    \A i \in 1..Len(tasks) :
      Cardinality({w \in Workers : Executing(w, i)}) <= 1

EventOutput(e) == [kind |-> "event", id |-> e]

Delivering(i, e) ==
    \E w \in Workers :
      /\ wtask[w] = i /\ pc[w] = "finalize"
      /\ wresult[w].success /\ wresult[w].output = EventOutput(e)

(* C34: every event with consumed_at set names in consumed_by_task_id a    *)
(* task whose consuming execution is, once finalized, completed with that  *)
(* event in result_data; until that finalize the execution holds the event *)
(* as its result.  No event is left consumed by an execution finalized as  *)
(* cancelled or otherwise not completed.                                   *)
C34_ConsumedEventIsDelivered ==
    \A e \in 1..Len(events) :
      events[e].consumed_at # None =>
        LET i == events[e].consumed_by_task_id
        IN \/ Delivering(i, e)
           \/ tasks[i].state = "completed" /\ tasks[i].result_data = EventOutput(e)

(* C35: every task that has been claimed, so that its max_attempts is      *)
(* normalized, has attempt_count <= max_attempts: neither the claim's      *)
(* increment nor the reaper's pushes the count above the limit.            *)
C35_AttemptCountWithinMaxAttempts ==
    \A i \in 1..Len(tasks) :
      tasks[i].started_at # None /\ tasks[i].max_attempts # None
        => tasks[i].attempt_count <= tasks[i].max_attempts

ExecutionBegins(w, i) == GateStep(w, i) /\ pc'[w] = "exec"

(* C36: after a failed execution scheduled a retry with next_run_at = t,   *)
(* the next execution of the task does not begin before t, whatever calls  *)
(* of pause_ticket, resume_ticket, request_approval and approve_ticket     *)
(* come in between.  With the clock standing at the instant of the failure *)
(* (t is at least one second later), no execution begins for a task that   *)
(* has failed and is waiting for its retry.                                *)
C36_RetryBackoffHonoured ==
    [][\A w \in Workers, i \in 1..Len(tasks) :
         ExecutionBegins(w, i) => tasks[i].error_message # FailResult.message]_vars

Rejected(tk) == tk.approval_status = "rejected"

(* C37: while a ticket's approval_status is rejected, no task of the       *)
(* ticket is claimed and none begins to execute, and a blocked task of the *)
(* ticket is still blocked after every step that leaves the ticket         *)
(* rejected, whether create_task, pause_ticket, resume_ticket or a worker  *)
(* step.                                                                   *)
C37_RejectedTicketRunsNothing ==
    [][\A i \in 1..Len(tasks) :
         LET tid == tasks[i].ticket_id
         IN Rejected(tickets[tid]) /\ Rejected(tickets'[tid]) =>
              /\ ~ClaimStep(i)
              /\ \A w \in Workers : ~ExecutionBegins(w, i)
              /\ tasks[i].state = "blocked" => tasks'[i].state = "blocked"]_vars

(* C38: ticket.paused holds exactly when ticket.status is "paused".        *)
C38_PausedFlagAgreesWithStatus ==
    \A tid \in 1..Len(tickets) :
      tickets[tid].paused <=> tickets[tid].status = "paused"

TerminalStates == {"completed", "failed", "dead_letter", "cancelled"}

WorkOver(tks, ts, tid) ==
    /\ ~tks[tid].paused
    /\ ~(tks[tid].approval_required /\ tks[tid].approval_status \in {"pending", "rejected"})
    /\ TasksOf(ts, tid) # {}
    /\ \A i \in TasksOf(ts, tid) : ts[i].state \in TerminalStates

(* C39: after the sync of the finalize transaction, a ticket that is not   *)
(* paused and not approval-gated and whose tasks are all terminal          *)
(* (completed, failed, dead_letter, cancelled) has a status other than     *)
(* active.                                                                 *)
C39_FinishedTicketIsNotActive ==
    [][\A w \in Workers, i \in 1..Len(tasks) :
         FinalizeStep(w, i) /\ WorkOver(tickets', tasks', tasks[i].ticket_id)
           => tickets'[tasks[i].ticket_id].status # "active"]_vars

(* C40: a recurring schedule that is inactive, which it is only through    *)
(* pause_schedule, stays inactive in every step that is not a              *)
(* resume_schedule of it, trigger_schedule_once included, and              *)
(* process_due_schedules does not select it.                               *)
C40_PausedScheduleStaysInactive ==
    [][\A id \in 1..Len(schedules) :
         ~schedules[id].active /\ Recurring(schedules[id]) =>
           /\ schedules'[id].active => resume_schedule(id)
           /\ \A w \in Workers : wsched[w] = NoBatch /\ wsched'[w] # NoBatch
                => id \notin Range(wsched'[w].rows)]_vars

====
